---- MODULE Spec2Model ----
(***************************************************************************)
(* A model of the scene root management (Scene.ts), the light registry     *)
(* (LightManager.ts) and the render pass sequence of the basic render      *)
(* pipeline (BasicRenderPipeline) of oasis-engine.                         *)
(*                                                                         *)
(* Objects are numbered: entities 1..NumEntities, scenes 1..NumScenes,     *)
(* lights 1..NumLights per kind, render passes 1..NumPasses + 1 (1 is the  *)
(* default pass).  Null (0) is the null reference of every kind of object. *)
(* JavaScript arrays are sequences; a JavaScript index k is position k+1.  *)
(***************************************************************************)
EXTENDS Integers, Sequences, FiniteSets, TLC

\* ------------------------------------------------------------------ bounds
NumEntities == 3
NumScenes == 2
NumSpotLights == 2
NumPointLights == 2
NumDirectLights == 3
NumPasses == 2
MaxPassArray == 3
NumRenderers == 3
NumCameras == 2
NumAmbientLights == 3
MaxPushed == 1
MaxDestroys == 2

Entities == 1..NumEntities
Scenes == 1..NumScenes
Null == 0

\* The insertion indices the callers pass: from one below the least valid
\* index to one above the root count of every list another entity can join.
IndexInputs == (0 - 1)..NumEntities

SpotLights == 1..NumSpotLights
PointLights == 1..NumPointLights
DirectLights == 1..NumDirectLights

\* The render pass objects: the default pass and the passes made later.
DefaultPass == 1
Passes == 1..(NumPasses + 1)
PassNames == {"default", "a"}
Priorities == {0 - 5, 0, 10}

\* ShadowType of a directional light, and the values its intensity and the
\* brightness of its colour take (finite numbers, in whole units).
ShadowTypes == {"None", "Hard"}
Intensities == {1, 100}
Brightnesses == {0, 1}

\* The renderers registered with the components manager, in container order.
Renderers == 1..NumRenderers

\* The cameras of the engine; the render target a camera can have and the
\* one a pass can have (two different RenderTarget objects).
Cameras == 1..NumCameras
CameraRenderTarget == 1
PassRenderTarget == 2

\* null or undefined where a number is expected (RenderPass.clearFlags).
Unset == 0 - 1

\* The camera whose pipeline renders, and its scene.
MainCamera == 1
CameraScene == 1

\* RenderQueueType, Layer bits and camera culling masks, CameraClearFlags
\* (None = 0, Color = 1, Depth = 2, DepthColor = 3), BackgroundMode.
RenderQueueTypes == {"Opaque", "AlphaTest", "Transparent"}
Layers == {1, 2}
CullingMasks == {1, 3}
ClearFlagsNone == 0
ClearFlagsColor == 1
CameraClearFlags == {0, 2, 3}
BackgroundModes == {"SolidColor", "Sky", "Texture"}

\* The ambient lights: the one each scene constructs, and the others.
AmbientLights == 1..(NumScenes + NumAmbientLights)

\* Entity names and the segments of a path ("" between two slashes).
Names == {"A", "B"}
Segments == Names \cup {""}
MaxSegments == 3

VARIABLES
  rootEntities,         \* Scene._rootEntities: scene -> sequence of entities
  isActiveInEngine,     \* Scene._isActiveInEngine: scene -> BOOLEAN
  isRoot,               \* Entity._isRoot
  scene,                \* Entity._scene (Null or a scene)
  parent,               \* Entity._parent (Null or an entity)
  children,             \* Entity._children: entity -> sequence of entities
  siblingIndex,         \* Entity._siblingIndex (-1 when in no list)
  isActive,             \* Entity._isActive
  isActiveInHierarchy,  \* Entity._isActiveInHierarchy
  sceneCall,            \* the last Scene call: its name and the error thrown
  spotLights,           \* LightManager._spotLights: sequence of spot lights
  pointLights,          \* LightManager._pointLights
  directLights,         \* LightManager._directLights
  spotLightIndex,       \* SpotLight._lightIndex (-1 when detached)
  pointLightIndex,      \* PointLight._lightIndex
  directLightIndex,     \* DirectLight._lightIndex
  shadowType,           \* DirectLight.shadowType
  intensity,            \* DirectLight.intensity
  brightness,           \* DirectLight.color.getBrightness()
  lightCall,            \* the last LightManager call: its name and result
  renderPassArray,      \* BasicRenderPipeline._renderPassArray
  passCreated,          \* the RenderPass objects constructed so far
  passName,             \* RenderPass.name
  passPriority,         \* RenderPass.priority
  pipelineCall,         \* the last pipeline call: name, arguments, passes run
  entityName,           \* Entity.name
  ambientLight,         \* Scene._ambientLight (Null before construction)
  ambientScenes,        \* AmbientLight._scenes: the scenes a light is bound to
  allScenes,            \* engine.sceneManager._allScenes
  activeScene,          \* engine.sceneManager.activeScene
  refCount,             \* Scene.shaderData reference count
  activeCameras,        \* Scene._activeCameras
  castShadows,          \* Scene.castShadows
  sunLight,             \* Scene._sunLight (Null while undefined)
  shaderMacros,         \* Scene.shaderData: the macros enabled, their values
  engineCall,           \* the last of the other Scene calls and its result
  camera,               \* the fields of the pipeline's camera
  background,           \* scene.background: mode, texture
  passConfig,           \* RenderPass: enabled, renderTarget, renderOverride, ...
  renderers,            \* the registered renderers and their fields
  opaqueQueue,          \* BasicRenderPipeline._opaqueQueue
  alphaTestQueue,       \* BasicRenderPipeline._alphaTestQueue
  transparentQueue,     \* BasicRenderPipeline._transparentQueue
  allSpriteMasks,       \* BasicRenderPipeline._allSpriteMasks
  frame                 \* the steps of the last pipeline call, a render()

sceneVars == <<rootEntities, isActiveInEngine, isRoot, scene, parent, children,
               siblingIndex, isActive, isActiveInHierarchy, sceneCall>>

lightVars == <<spotLights, pointLights, directLights, spotLightIndex,
               pointLightIndex, directLightIndex, shadowType, intensity,
               brightness, lightCall>>

pipelineVars == <<renderPassArray, passCreated, passName, passPriority,
                  pipelineCall>>

engineVars == <<entityName, ambientLight, ambientScenes, allScenes,
                activeScene, refCount, activeCameras, castShadows, sunLight,
                shaderMacros, engineCall>>

\* What the frames read, and what they write besides the step record.
frameInputs == <<camera, background, passConfig>>

queueVars == <<renderers, opaqueQueue, alphaTestQueue, transparentQueue,
               allSpriteMasks>>

frameVars == <<frameInputs, queueVars, frame>>

vars == <<sceneVars, lightVars, pipelineVars, engineVars, frameVars>>

\* ------------------------------------------------------------ JS helpers
Min(a, b) == IF a < b THEN a ELSE b
Max(a, b) == IF a > b THEN a ELSE b

\* Array.prototype.splice(index, 1): a negative index counts from the end,
\* an index beyond the end removes nothing.
SpliceOut(list, index) ==
  LET len == Len(list)
      start == IF index < 0 THEN Max(len + index, 0) ELSE Min(index, len)
  IN IF start < len
       THEN SubSeq(list, 1, start) \o SubSeq(list, start + 2, len)
       ELSE list

\* Array.prototype.splice(index, 0, x) for 0 <= index <= length.
SpliceIn(list, index, x) ==
  SubSeq(list, 1, index) \o <<x>> \o SubSeq(list, index + 1, Len(list))

\* Array.prototype.indexOf: the first JavaScript index of x, or -1.
IndexOf(list, x) ==
  IF \E p \in 1..Len(list) : list[p] = x
    THEN (CHOOSE p \in 1..Len(list) :
            list[p] = x /\ \A q \in 1..(p - 1) : list[q] # x) - 1
    ELSE 0 - 1

\* How many of the positions ps of list hold x.
Occurrences(list, ps, x) == Cardinality({p \in ps : list[p] = x})

\* ------------------------------------------------------- the scene state
\* The entity and scene fields a Scene method reads and writes, as one
\* record, with the error the method has thrown so far ("none" if none)
\* and the activations and deactivations it has invoked on entities.
SceneState ==
  [rootEntities |-> rootEntities, isRoot |-> isRoot, scene |-> scene,
   parent |-> parent, children |-> children, siblingIndex |-> siblingIndex,
   isActiveInHierarchy |-> isActiveInHierarchy, error |-> "none",
   calls |-> <<>>]

\* ------------------------------------------------- Entity (collaborator)
RECURSIVE SubtreeOf(_, _)
\* An entity and all its descendants.
SubtreeOf(ch, e) ==
  {e} \cup UNION {SubtreeOf(ch, ch[e][i]) : i \in 1..Len(ch[e])}

RECURSIVE ActiveSubtreeOf(_, _)
\* An entity and the descendants its activation change propagates to: the
\* propagation follows the children whose own active flag is set.
ActiveSubtreeOf(ch, e) ==
  {e} \cup UNION {ActiveSubtreeOf(ch, ch[e][i]) :
                    i \in {j \in 1..Len(ch[e]) : isActive[ch[e][j]]}}

\* Entity._removeFromParent: leave the parent's child list, closing the gap.
RemoveFromParent(st, e) ==
  LET p == st.parent[e] IN
  IF p = Null THEN st
  ELSE
    LET index == st.siblingIndex[e]
        list == SpliceOut(st.children[p], index)
        sib == [x \in Entities |->
                  IF x = e THEN 0 - 1
                  ELSE st.siblingIndex[x]
                         - Occurrences(list, (index + 1)..Len(list), x)]
    IN [st EXCEPT !.children[p] = list, !.siblingIndex = sib,
                  !.parent[e] = Null]

\* Entity._traverseSetOwnerScene: the owning scene of the whole subtree.
TraverseSetOwnerScene(st, e, s) ==
  [st EXCEPT !.scene = [x \in Entities |->
      IF x \in SubtreeOf(st.children, e) THEN s ELSE st.scene[x]]]

\* Entity._processActive: activate the entity and its active descendants.
EntityProcessActive(st, e) ==
  [st EXCEPT !.isActiveInHierarchy = [x \in Entities |->
      IF x \in ActiveSubtreeOf(st.children, e) THEN TRUE
      ELSE st.isActiveInHierarchy[x]],
             !.calls = Append(@, <<"_processActive", e>>)]

\* Entity._processInActive: deactivate the entity and its active descendants.
EntityProcessInActive(st, e) ==
  [st EXCEPT !.isActiveInHierarchy = [x \in Entities |->
      IF x \in ActiveSubtreeOf(st.children, e) THEN FALSE
      ELSE st.isActiveInHierarchy[x]],
             !.calls = Append(@, <<"_processInActive", e>>)]

\* ------------------------------------------------------------ Scene.ts
\* A removal that leaves the sibling indices of the later roots as they were.
RemoveFromEntityListNoReindex(st, s, e) ==
  LET index == st.siblingIndex[e]
      list == SpliceOut(st.rootEntities[s], index)
  IN IF index < 0
       THEN [st EXCEPT !.rootEntities[s] = list, !.error = "TypeError"]
       ELSE [st EXCEPT !.rootEntities[s] = list, !.siblingIndex[e] = 0 - 1]

\* Scene._removeFromEntityList.  The entity's sibling index is trusted: the
\* element at that index is spliced out, whichever entity it is.  With a
\* sibling index of -1 the splice drops the last root and the loop then reads
\* rootEntities[-1], which is undefined: a TypeError, before the entity's own
\* sibling index is reset.
RemoveFromEntityList(st, s, e) ==
  LET index == st.siblingIndex[e]
      list == SpliceOut(st.rootEntities[s], index)
      n == Len(list)
  IN IF index < 0
       THEN [st EXCEPT !.rootEntities[s] = list, !.error = "TypeError"]
       ELSE [st EXCEPT
               !.rootEntities[s] = list,
               !.siblingIndex = [x \in Entities |->
                  IF x = e THEN 0 - 1
                  ELSE st.siblingIndex[x]
                         - Occurrences(list, (index + 1)..n, x)]]

\* An insertion whose bounds test rejects the index equal to the root count.
AddToRootEntityListOffByOne(st, s, hasIndex, index, e) ==
  LET list == st.rootEntities[s]
      rootEntityCount == Len(list)
  IN IF ~hasIndex
       THEN [st EXCEPT !.siblingIndex[e] = rootEntityCount,
                       !.rootEntities[s] = Append(list, e)]
     ELSE IF index < 0 \/ index >= rootEntityCount
       THEN [st EXCEPT !.error = "OutOfBounds"]
     ELSE
       LET newList == SpliceIn(list, index, e)
           sib1 == [st.siblingIndex EXCEPT ![e] = index]
       IN [st EXCEPT
             !.rootEntities[s] = newList,
             !.siblingIndex = [x \in Entities |->
                sib1[x] + Occurrences(newList,
                                      (index + 2)..(rootEntityCount + 1), x)]]

\* Scene._addToRootEntityList.  hasIndex = FALSE is the call without index.
AddToRootEntityList(st, s, hasIndex, index, e) ==
  LET list == st.rootEntities[s]
      rootEntityCount == Len(list)
  IN IF ~hasIndex
       THEN [st EXCEPT !.siblingIndex[e] = rootEntityCount,
                       !.rootEntities[s] = Append(list, e)]
     ELSE IF index < 0 \/ index > rootEntityCount
       THEN [st EXCEPT !.error = "OutOfBounds"]
     ELSE
       LET newList == SpliceIn(list, index, e)
           sib1 == [st.siblingIndex EXCEPT ![e] = index]
       IN [st EXCEPT
             !.rootEntities[s] = newList,
             !.siblingIndex = [x \in Entities |->
                sib1[x] + Occurrences(newList,
                                      (index + 2)..(rootEntityCount + 1), x)]]

\* Scene.addRootEntity, lines 152-157: let the entity become root.
BecomeRoot(st, e) ==
  IF st.isRoot[e] THEN st
  ELSE RemoveFromParent([st EXCEPT !.isRoot[e] = TRUE], e)

\* A move that forgets to take the root out of its previous scene's list.
MoveToSceneKeepOld(st, s, hasIndex, index, e, wasRoot) ==
  LET oldScene == st.scene[e] IN
  IF oldScene # s
    THEN LET st2 == AddToRootEntityList(st, s, hasIndex, index, e)
         IN IF st2.error # "none" THEN st2
            ELSE TraverseSetOwnerScene(st2, e, s)
  ELSE IF ~wasRoot
    THEN AddToRootEntityList(st, s, hasIndex, index, e)
  ELSE st

\* Scene.addRootEntity, lines 159-169: add to or remove from the root lists.
\* wasRoot is the root flag read at line 152.
MoveToScene(st, s, hasIndex, index, e, wasRoot) ==
  LET oldScene == st.scene[e] IN
  IF oldScene # s
    THEN LET st1 == IF oldScene # Null /\ wasRoot
                      THEN RemoveFromEntityList(st, oldScene, e)
                      ELSE st
             st2 == IF st1.error # "none" THEN st1
                    ELSE AddToRootEntityList(st1, s, hasIndex, index, e)
         IN IF st2.error # "none" THEN st2
            ELSE TraverseSetOwnerScene(st2, e, s)
  ELSE IF ~wasRoot
    THEN AddToRootEntityList(st, s, hasIndex, index, e)
  ELSE st

\* An addRootEntity that activates the entity in an active scene and leaves
\* it as it is in any other.
ProcessEntityActiveOnly(st, s, e) ==
  IF isActiveInEngine[s] /\ ~st.isActiveInHierarchy[e] /\ isActive[e]
    THEN EntityProcessActive(st, e) ELSE st

\* Scene.addRootEntity, lines 171-176: process entity active/inActive.
ProcessEntityActive(st, s, e) ==
  IF isActiveInEngine[s]
    THEN IF ~st.isActiveInHierarchy[e] /\ isActive[e]
           THEN EntityProcessActive(st, e) ELSE st
    ELSE IF st.isActiveInHierarchy[e]
           THEN EntityProcessInActive(st, e) ELSE st

\* Scene.addRootEntity as a whole; a throw ends the call where it happens.
AddRootEntityResult(st, s, hasIndex, index, e) ==
  LET wasRoot == st.isRoot[e]
      st1 == BecomeRoot(st, e)
      st2 == MoveToScene(st1, s, hasIndex, index, e, wasRoot)
  IN IF st2.error # "none" THEN st2 ELSE ProcessEntityActive(st2, s, e)

\* Scene.removeRootEntity as a whole.
RemoveRootEntityResult(st, s, e) ==
  IF st.isRoot[e] /\ st.scene[e] = s
    THEN LET st1 == RemoveFromEntityList(st, s, e)
             st2 == [st1 EXCEPT !.isRoot[e] = FALSE]
             st3 == IF isActiveInEngine[s] /\ st2.isActiveInHierarchy[e]
                      THEN EntityProcessInActive(st2, e) ELSE st2
         IN IF st1.error # "none" THEN st1
            ELSE TraverseSetOwnerScene(st3, e, Null)
    ELSE st

RECURSIVE ProcessRootsAll(_, _, _, _)
\* A loop that does not look at the active flag of a root.
ProcessRootsAll(st, list, i, active) ==
  IF i < 1 THEN st
  ELSE ProcessRootsAll(IF active THEN EntityProcessActive(st, list[i])
                       ELSE EntityProcessInActive(st, list[i]),
                       list, i - 1, active)

RECURSIVE ProcessRoots(_, _, _, _)
\* Scene._processActive, lines 286-291: the roots from the last to the first.
ProcessRoots(st, list, i, active) ==
  IF i < 1 THEN st
  ELSE LET entity == list[i]
           st1 == IF isActive[entity]
                    THEN IF active THEN EntityProcessActive(st, entity)
                         ELSE EntityProcessInActive(st, entity)
                    ELSE st
       IN ProcessRoots(st1, list, i - 1, active)

\* The assignment of a resulting scene state to the variables.
Commit(st) ==
  /\ rootEntities' = st.rootEntities
  /\ isRoot' = st.isRoot
  /\ scene' = st.scene
  /\ parent' = st.parent
  /\ children' = st.children
  /\ siblingIndex' = st.siblingIndex
  /\ isActiveInHierarchy' = st.isActiveInHierarchy

SceneCallRecord(op, error) == [op |-> op, error |-> error]

\* scene.addRootEntity(entity) and scene.addRootEntity(index, entity)
AddRootEntity(s, hasIndex, index, e) ==
  LET st == AddRootEntityResult(SceneState, s, hasIndex, index, e) IN
  /\ Commit(st)
  /\ sceneCall' = SceneCallRecord("addRootEntity", st.error)
  /\ UNCHANGED <<isActiveInEngine, isActive, lightVars, pipelineVars,
                 engineVars, frameVars>>

\* scene.removeRootEntity(entity)
RemoveRootEntity(s, e) ==
  LET st == RemoveRootEntityResult(SceneState, s, e) IN
  /\ Commit(st)
  /\ sceneCall' = SceneCallRecord("removeRootEntity", st.error)
  /\ UNCHANGED <<isActiveInEngine, isActive, lightVars, pipelineVars,
                 engineVars, frameVars>>

\* scene._processActive(active)
SceneProcessActive(s, active) ==
  LET list == rootEntities[s]
      st == ProcessRoots(SceneState, list, Len(list), active)
  IN /\ isActiveInEngine' = [isActiveInEngine EXCEPT ![s] = active]
     /\ Commit(st)
     /\ sceneCall' = SceneCallRecord("_processActive", "none")
     /\ UNCHANGED <<isActive, lightVars, pipelineVars,
                 engineVars, frameVars>>

\* ------------------------------------------------------------ Scene: Init
\* Entities are built before they are given to a scene: each is parentless
\* or the child of an entity made before it, owned by no scene, not a root
\* and not active in any hierarchy.  The first entity keeps the active flag
\* a new Entity has; the flag of every other is set or cleared.
ChildrenOf(par, p) ==
  LET kids == {c \in Entities : par[c] = p}
      F[k \in 0..NumEntities] ==
        IF k = 0 THEN <<>>
        ELSE IF k \in kids THEN Append(F[k - 1], k) ELSE F[k - 1]
  IN F[NumEntities]

Forests == {par \in [Entities -> {Null} \cup Entities] :
              \A c \in Entities : par[c] < c}

NoSceneCall == SceneCallRecord("none", "none")

SceneInitWith(forests, flags) ==
  /\ rootEntities = [s \in Scenes |-> <<>>]
  /\ isActiveInEngine = [s \in Scenes |-> FALSE]
  /\ isRoot = [e \in Entities |-> FALSE]
  /\ scene = [e \in Entities |-> Null]
  /\ parent \in forests
  /\ children = [p \in Entities |-> ChildrenOf(parent, p)]
  /\ siblingIndex = [e \in Entities |->
       IF parent[e] = Null THEN 0 - 1
       ELSE IndexOf(ChildrenOf(parent, parent[e]), e)]
  /\ isActive \in flags
  /\ isActiveInHierarchy = [e \in Entities |-> FALSE]
  /\ sceneCall = NoSceneCall

SceneInit ==
  SceneInitWith(Forests, {f \in [Entities -> BOOLEAN] : f[1]})

\* Parentless, active entities only: the scenes of the specifications that
\* make no scene call.
SceneIdle ==
  SceneInitWith({[e \in Entities |-> Null]}, {[e \in Entities |-> TRUE]})

SceneNext ==
  \/ \E s \in Scenes, e \in Entities : AddRootEntity(s, FALSE, 0, e)
  \/ \E s \in Scenes, e \in Entities, index \in IndexInputs :
       AddRootEntity(s, TRUE, index, e)
  \/ \E s \in Scenes, e \in Entities : RemoveRootEntity(s, e)
  \/ \E s \in Scenes, active \in BOOLEAN : SceneProcessActive(s, active)

\* ---------------------------------------- DisorderedArray (collaborator)
\* DisorderedArray.add: append at the end.
DisorderedArrayAdd(elements, x) == Append(elements, x)

\* DisorderedArray.deleteByIndex: the last element takes the freed slot and
\* is returned; deleting the last element moves nothing and returns Null.
DeleteByIndex(elements, index) ==
  LET lastIndex == Len(elements) - 1
      end == IF index # lastIndex THEN elements[lastIndex + 1] ELSE Null
      moved == IF index # lastIndex /\ index >= 0 /\ index < lastIndex
                 THEN [elements EXCEPT ![index + 1] = end]
                 ELSE elements
  IN [elements |-> SubSeq(moved, 1, lastIndex), replaced |-> end]

\* -------------------------------------------------------- LightManager.ts
\* A detach that leaves the stored index of the swapped-in light as it was.
DetachNoFixup(lights, lightIndex, light) ==
  LET del == DeleteByIndex(lights, lightIndex[light])
  IN [lights |-> del.elements,
      lightIndex |-> [lightIndex EXCEPT ![light] = 0 - 1]]

\* _attachSpotLight, _attachPointLight, _attachDirectLight (one text).
Attach(lights, lightIndex, light) ==
  [lights |-> DisorderedArrayAdd(lights, light),
   lightIndex |-> [lightIndex EXCEPT ![light] = Len(lights)]]

\* _detachSpotLight, _detachPointLight, _detachDirectLight (one text).
Detach(lights, lightIndex, light) ==
  LET del == DeleteByIndex(lights, lightIndex[light])
      fixed == IF del.replaced # Null
                 THEN [lightIndex EXCEPT ![del.replaced] = lightIndex[light]]
                 ELSE lightIndex
  IN [lights |-> del.elements,
      lightIndex |-> [fixed EXCEPT ![light] = 0 - 1]]

LightCallRecord(op, result) == [op |-> op, result |-> result]

\* Light._onEnable attaches a light that is detached, Light._onDisable
\* detaches a light that is attached: the guards of the six actions.
AttachSpotLight(light) ==
  LET r == Attach(spotLights, spotLightIndex, light) IN
  /\ spotLightIndex[light] = 0 - 1
  /\ spotLights' = r.lights
  /\ spotLightIndex' = r.lightIndex
  /\ lightCall' = LightCallRecord("_attachSpotLight", 0 - 1)
  /\ UNCHANGED <<pointLights, directLights, pointLightIndex,
                 directLightIndex, shadowType, intensity, brightness,
                 sceneVars, pipelineVars,
                 engineVars, frameVars>>

DetachSpotLight(light) ==
  LET r == Detach(spotLights, spotLightIndex, light) IN
  /\ spotLightIndex[light] # 0 - 1
  /\ spotLights' = r.lights
  /\ spotLightIndex' = r.lightIndex
  /\ lightCall' = LightCallRecord("_detachSpotLight", 0 - 1)
  /\ UNCHANGED <<pointLights, directLights, pointLightIndex,
                 directLightIndex, shadowType, intensity, brightness,
                 sceneVars, pipelineVars,
                 engineVars, frameVars>>

AttachPointLight(light) ==
  LET r == Attach(pointLights, pointLightIndex, light) IN
  /\ pointLightIndex[light] = 0 - 1
  /\ pointLights' = r.lights
  /\ pointLightIndex' = r.lightIndex
  /\ lightCall' = LightCallRecord("_attachPointLight", 0 - 1)
  /\ UNCHANGED <<spotLights, directLights, spotLightIndex,
                 directLightIndex, shadowType, intensity, brightness,
                 sceneVars, pipelineVars,
                 engineVars, frameVars>>

DetachPointLight(light) ==
  LET r == Detach(pointLights, pointLightIndex, light) IN
  /\ pointLightIndex[light] # 0 - 1
  /\ pointLights' = r.lights
  /\ pointLightIndex' = r.lightIndex
  /\ lightCall' = LightCallRecord("_detachPointLight", 0 - 1)
  /\ UNCHANGED <<spotLights, directLights, spotLightIndex,
                 directLightIndex, shadowType, intensity, brightness,
                 sceneVars, pipelineVars,
                 engineVars, frameVars>>

AttachDirectLight(light) ==
  LET r == Attach(directLights, directLightIndex, light) IN
  /\ directLightIndex[light] = 0 - 1
  /\ directLights' = r.lights
  /\ directLightIndex' = r.lightIndex
  /\ lightCall' = LightCallRecord("_attachDirectLight", 0 - 1)
  /\ UNCHANGED <<spotLights, pointLights, spotLightIndex,
                 pointLightIndex, shadowType, intensity, brightness,
                 sceneVars, pipelineVars,
                 engineVars, frameVars>>

DetachDirectLight(light) ==
  LET r == Detach(directLights, directLightIndex, light) IN
  /\ directLightIndex[light] # 0 - 1
  /\ directLights' = r.lights
  /\ directLightIndex' = r.lightIndex
  /\ lightCall' = LightCallRecord("_detachDirectLight", 0 - 1)
  /\ UNCHANGED <<spotLights, pointLights, spotLightIndex,
                 pointLightIndex, shadowType, intensity, brightness,
                 sceneVars, pipelineVars,
                 engineVars, frameVars>>

\* The running state of the loop of _getSunLightIndex.  maxIntensity starts
\* at Number.NEGATIVE_INFINITY, which is below every finite number:
\* isNegativeInfinity says that it still is.
SunLoopStart ==
  [sunLightIndex |-> 0 - 1, isNegativeInfinity |-> TRUE, maxIntensity |-> 0,
   hasShadowLight |-> FALSE]

\* maxIntensity < intensity
MaxIntensityBelow(acc, x) == acc.isNegativeInfinity \/ acc.maxIntensity < x

\* A loop body that keeps the running maximum when the first shadow-casting
\* light is seen.
SunLightStepNoReset(acc, i, directLight) ==
  LET acc1 == IF shadowType[directLight] # "None" /\ ~acc.hasShadowLight
                THEN [acc EXCEPT !.hasShadowLight = TRUE]
                ELSE acc
      x == intensity[directLight] * brightness[directLight]
      better == [acc1 EXCEPT !.isNegativeInfinity = FALSE,
                             !.maxIntensity = x, !.sunLightIndex = i]
  IN IF acc1.hasShadowLight
       THEN IF shadowType[directLight] # "None" /\ MaxIntensityBelow(acc1, x)
              THEN better ELSE acc1
       ELSE IF MaxIntensityBelow(acc1, x) THEN better ELSE acc1

\* A loop body whose comparisons let a later light of equal product win.
SunLightStepLatestWins(acc, i, directLight) ==
  LET acc1 == IF shadowType[directLight] # "None" /\ ~acc.hasShadowLight
                THEN [acc EXCEPT !.isNegativeInfinity = TRUE,
                                 !.hasShadowLight = TRUE]
                ELSE acc
      x == intensity[directLight] * brightness[directLight]
      notAbove == acc1.isNegativeInfinity \/ acc1.maxIntensity <= x
      better == [acc1 EXCEPT !.isNegativeInfinity = FALSE,
                             !.maxIntensity = x, !.sunLightIndex = i]
  IN IF acc1.hasShadowLight
       THEN IF shadowType[directLight] # "None" /\ notAbove
              THEN better ELSE acc1
       ELSE IF notAbove THEN better ELSE acc1

\* _getSunLightIndex, lines 80-96: the loop body for the light at index i.
SunLightStep(acc, i, directLight) ==
  LET acc1 == IF shadowType[directLight] # "None" /\ ~acc.hasShadowLight
                THEN [acc EXCEPT !.isNegativeInfinity = TRUE,
                                 !.hasShadowLight = TRUE]
                ELSE acc
      x == intensity[directLight] * brightness[directLight]
      better == [acc1 EXCEPT !.isNegativeInfinity = FALSE,
                             !.maxIntensity = x, !.sunLightIndex = i]
  IN IF acc1.hasShadowLight
       THEN IF shadowType[directLight] # "None" /\ MaxIntensityBelow(acc1, x)
              THEN better ELSE acc1
       ELSE IF MaxIntensityBelow(acc1, x) THEN better ELSE acc1

RECURSIVE SunLoop(_, _, _)
\* _getSunLightIndex, line 79: for (let i = 0, n = length; i < n; i++)
SunLoop(lights, i, acc) ==
  IF i >= Len(lights) THEN acc
  ELSE SunLoop(lights, i + 1, SunLightStep(acc, i, lights[i + 1]))

\* LightManager._getSunLightIndex
SunLightIndexOf(lights) == SunLoop(lights, 0, SunLoopStart).sunLightIndex

GetSunLightIndex ==
  /\ lightCall' = LightCallRecord("_getSunLightIndex",
                                  SunLightIndexOf(directLights))
  /\ UNCHANGED <<spotLights, pointLights, directLights, spotLightIndex,
                 pointLightIndex, directLightIndex, shadowType, intensity,
                 brightness, sceneVars, pipelineVars,
                 engineVars, frameVars>>

\* ----------------------------------------------------------- lights: Init
\* An empty registry; every light detached.
RegistryInit ==
  /\ spotLights = <<>>
  /\ pointLights = <<>>
  /\ directLights = <<>>
  /\ spotLightIndex = [l \in SpotLights |-> 0 - 1]
  /\ pointLightIndex = [l \in PointLights |-> 0 - 1]
  /\ directLightIndex = [l \in DirectLights |-> 0 - 1]
  /\ lightCall = LightCallRecord("none", 0 - 1)

\* The directional lights as new DirectLight() makes them.
LightInit ==
  /\ RegistryInit
  /\ shadowType = [l \in DirectLights |-> "None"]
  /\ intensity = [l \in DirectLights |-> 1]
  /\ brightness = [l \in DirectLights |-> 1]

\* The directional lights with every setting of their fields.
SunInit ==
  /\ RegistryInit
  /\ shadowType \in [DirectLights -> ShadowTypes]
  /\ intensity \in [DirectLights -> Intensities]
  /\ brightness \in [DirectLights -> Brightnesses]

LightNext ==
  \/ \E light \in SpotLights : AttachSpotLight(light)
  \/ \E light \in SpotLights : DetachSpotLight(light)
  \/ \E light \in PointLights : AttachPointLight(light)
  \/ \E light \in PointLights : DetachPointLight(light)
  \/ \E light \in DirectLights : AttachDirectLight(light)
  \/ \E light \in DirectLights : DetachDirectLight(light)

SunNext ==
  \/ \E light \in DirectLights : AttachDirectLight(light)
  \/ \E light \in DirectLights : DetachDirectLight(light)
  \/ GetSunLightIndex

\* ----------------------------------------------- BasicRenderPipeline
RECURSIVE SortFrom(_, _, _)
\* Array.prototype.sort with the comparator p1.priority - p2.priority: a
\* stable sort, here by insertion of the elements from the first to the last
\* behind the sorted elements whose priority is not greater.
SortFrom(array, i, sorted) ==
  IF i > Len(array) THEN sorted
  ELSE LET x == array[i]
           k == Cardinality({q \in 1..Len(sorted) :
                               passPriority'[sorted[q]] <= passPriority'[x]})
       IN SortFrom(array, i + 1, SpliceIn(sorted, k, x))

\* A sort left out: the new pass stays at the end.
NoSort(array) == array

\* addRenderPass, lines 91-93: this._renderPassArray.sort(...)
SortByPriority(array) == SortFrom(array, 1, <<>>)

\* getRenderPass: the first pass of that name, or null.
GetRenderPass(name) ==
  IF \E p \in 1..Len(renderPassArray) : passName[renderPassArray[p]] = name
    THEN renderPassArray[CHOOSE p \in 1..Len(renderPassArray) :
           /\ passName[renderPassArray[p]] = name
           /\ \A q \in 1..(p - 1) : passName[renderPassArray[q]] # name]
    ELSE Null

\* removeRenderPass, lines 104-107: indexOf, then splice(idx, 1), also when
\* indexOf has returned -1.
RemovePass(array, pass) ==
  IF pass # Null THEN SpliceOut(array, IndexOf(array, pass)) ELSE array

\* ------------------------------------------------ the frame: render()
RECURSIVE BitAnd(_, _)
\* a & b of two small non-negative integers.
BitAnd(a, b) ==
  IF a = 0 \/ b = 0 THEN 0
  ELSE (a % 2) * (b % 2) + 2 * BitAnd(a \div 2, b \div 2)

\* What render() reads and writes, as one record: the three queues, the
\* sprite mask list, the renderers, the steps taken so far (events) and the
\* passes drawn so far.
FrameState ==
  [opaqueQueue |-> opaqueQueue, alphaTestQueue |-> alphaTestQueue,
   transparentQueue |-> transparentQueue, allSpriteMasks |-> allSpriteMasks,
   renderers |-> renderers, events |-> <<>>, drawn |-> <<>>]

\* A step of the frame: its kind, the pass it belongs to (Null for the steps
\* before the passes), two arguments, and the queues as they are then.
Event(fs, kind, pass, x, y) ==
  [kind |-> kind, pass |-> pass, x |-> x, y |-> y,
   opaque |-> fs.opaqueQueue, alphaTest |-> fs.alphaTestQueue,
   transparent |-> fs.transparentQueue, masks |-> fs.allSpriteMasks]

Emit(fs, kind, pass, x, y) ==
  [fs EXCEPT !.events = Append(@, Event(fs, kind, pass, x, y))]

\* RenderQueue.pushPrimitive: append.
QueuePush(queue, element) == Append(queue, element)

\* RenderQueue.clear: the logical length becomes zero.
QueueClear(queue) == SubSeq(queue, 1, 0)

RECURSIVE QueueSortFrom(_, _, _, _)
\* RenderQueue.sort with _compareFromNearToFar (ascending distance for sort)
\* or _compareFromFarToNear (descending), by insertion.
QueueSortFrom(queue, i, sorted, nearToFar) ==
  IF i > Len(queue) THEN sorted
  ELSE LET x == queue[i]
           k == Cardinality({q \in 1..Len(sorted) :
                  IF nearToFar
                    THEN sorted[q].distanceForSort <= x.distanceForSort
                    ELSE sorted[q].distanceForSort >= x.distanceForSort})
       IN QueueSortFrom(queue, i + 1, SpliceIn(sorted, k, x), nearToFar)

QueueSort(queue, nearToFar) == QueueSortFrom(queue, 1, <<>>, nearToFar)

\* The render element a renderer emits: its queue type and its sort key.
ElementOf(renderer, r) ==
  [renderer |-> r, renderQueueType |-> renderer.renderQueueType,
   distanceForSort |-> renderer.distanceForSort]

\* pushPrimitive, lines 218-230
PushPrimitiveTo(fs, element) ==
  CASE element.renderQueueType = "Transparent" ->
         [fs EXCEPT !.transparentQueue = QueuePush(@, element)]
    [] element.renderQueueType = "AlphaTest" ->
         [fs EXCEPT !.alphaTestQueue = QueuePush(@, element)]
    [] element.renderQueueType = "Opaque" ->
         [fs EXCEPT !.opaqueQueue = QueuePush(@, element)]
    [] OTHER -> fs

\* Renderer._render: the renderer hands its render element to the pipeline.
RendererRender(fs, r) == PushPrimitiveTo(fs, ElementOf(fs.renderers[r], r))

\* render, lines 150-152: scene._sunLight?.shadowType !== ShadowType.None is
\* true also when the scene has no sun light (undefined !== None).
ShadowEvaluation(fs) ==
  LET light == sunLight[CameraScene]
      wanted == IF light = Null THEN TRUE ELSE shadowType[light] # "None"
  IN IF castShadows[CameraScene] /\ wanted
       THEN Emit(fs, "shadowCasterRender", Null, 0, 0)
       ELSE fs

\* A reset that leaves the transparent queue as the last frame left it.
ClearQueuesButTransparent(fs) ==
  Emit([fs EXCEPT !.opaqueQueue = QueueClear(@),
                  !.alphaTestQueue = QueueClear(@),
                  !.allSpriteMasks = SubSeq(@, 1, 0)],
       "clearQueues", Null, 0, 0)

\* render, lines 153-156
ClearQueues(fs) ==
  Emit([fs EXCEPT !.opaqueQueue = QueueClear(@),
                  !.alphaTestQueue = QueueClear(@),
                  !.transparentQueue = QueueClear(@),
                  !.allSpriteMasks = SubSeq(@, 1, 0)],
       "clearQueues", Null, 0, 0)

\* A culling by the culling mask alone.
SkippedByMaskOnly(renderer) ==
  BitAnd(camera.cullingMask, renderer.layer) = 0

\* _callRender, lines 262-272: whether the renderer at r is left out.
SkippedByCamera(renderer) ==
  \/ BitAnd(camera.cullingMask, renderer.layer) = 0
  \/ camera.enableFrustumCulling /\ ~renderer.intersectsFrustum

RECURSIVE CallRender(_, _)
\* _callRender, lines 258-294: the renderers from the last to the first (i is
\* the JavaScript index).
CallRender(fs, i) ==
  IF i < 0 THEN fs
  ELSE
    LET r == i + 1
        renderer == fs.renderers[r]
        inMask == BitAnd(camera.cullingMask, renderer.layer) # 0
        fs1 == IF inMask /\ camera.enableFrustumCulling
                 THEN [fs EXCEPT !.renderers[r].isCulled =
                                    ~renderer.intersectsFrustum]
                 ELSE fs
        distance == IF camera.isOrthographic THEN renderer.forwardDistance
                    ELSE renderer.distanceSquared
        fs2 == [fs1 EXCEPT !.renderers[r].distanceForSort = distance]
    IN IF SkippedByCamera(renderer) THEN CallRender(fs1, i - 1)
       ELSE CallRender(RendererRender(fs2, r), i - 1)

\* render, lines 161-163
SortQueues(fs) ==
  Emit([fs EXCEPT !.opaqueQueue = QueueSort(@, TRUE),
                  !.alphaTestQueue = QueueSort(@, TRUE),
                  !.transparentQueue = QueueSort(@, FALSE)],
       "sort", Null, 0, 0)

\* _drawRenderPass, line 183: camera.renderTarget || pass.renderTarget
BoundRenderTarget(pass) ==
  IF camera.renderTarget # Null THEN camera.renderTarget
  ELSE passConfig[pass].renderTarget

\* _drawRenderPass, line 186: pass.clearFlags ?? camera.clearFlags
ResolvedClearFlags(pass) ==
  IF passConfig[pass].clearFlags # Unset THEN passConfig[pass].clearFlags
  ELSE camera.clearFlags

\* A pipeline that draws the background whatever the camera clears.
DrawBackgroundWhateverFlags(fs, pass) ==
  IF background.mode = "Sky"
    THEN Emit(fs, "drawSky", pass, 0, 0)
  ELSE IF background.mode = "Texture" /\ background.texture # Null
    THEN Emit(fs, "drawBackgroundTexture", pass, 0, 0)
  ELSE fs

\* _drawRenderPass, lines 197-203: the background, between the alpha test
\* and the transparent queue (the resize of the background texture inside
\* _drawBackgroundTexture is left out).
DrawBackground(fs, pass) ==
  IF BitAnd(camera.clearFlags, ClearFlagsColor) # 0
    THEN IF background.mode = "Sky"
           THEN Emit(fs, "drawSky", pass, 0, 0)
         ELSE IF background.mode = "Texture" /\ background.texture # Null
           THEN Emit(fs, "drawBackgroundTexture", pass, 0, 0)
         ELSE fs
    ELSE fs

\* _drawRenderPass, lines 192-205
DrawQueues(fs, pass) ==
  LET cfg == passConfig[pass] IN
  IF cfg.renderOverride
    THEN Emit(fs, "render", pass, 0, 0)
    ELSE LET o == Emit(fs, "drawOpaque", pass, cfg.mask, cfg.replaceMaterial)
             a == Emit(o, "drawAlphaTest", pass, cfg.mask,
                       cfg.replaceMaterial)
             b == DrawBackground(a, pass)
         IN Emit(b, "drawTransparent", pass, cfg.mask, cfg.replaceMaterial)

\* _drawRenderPass, lines 179-209: what an enabled pass does.
DrawEnabledPass(fs, pass) ==
  LET renderTarget == BoundRenderTarget(pass)
      clearFlags == ResolvedClearFlags(pass)
      f1 == Emit(fs, "activeRenderTarget", pass, renderTarget, 0)
      f2 == IF renderTarget # Null
              THEN Emit(f1, "setRenderTargetInfo", pass, renderTarget, 0)
              ELSE f1
      f3 == IF clearFlags # ClearFlagsNone
              THEN Emit(f2, "clearRenderTarget", pass, clearFlags, 0)
              ELSE f2
      f4 == DrawQueues(f3, pass)
  IN IF renderTarget # Null
       THEN Emit(Emit(f4, "blitRenderTarget", pass, renderTarget, 0),
                 "generateMipmaps", pass, renderTarget, 0)
       ELSE f4

\* A pipeline that leaves a disabled pass out altogether, hooks included.
DrawRenderPassEnabledOnly(fs, pass) ==
  IF passConfig[pass].enabled
    THEN Emit(DrawEnabledPass(Emit(fs, "preRender", pass, 0, 0), pass),
              "postRender", pass, 0, 0)
    ELSE fs

\* _drawRenderPass, lines 170-212
DrawRenderPass(fs, pass) ==
  LET f1 == Emit(fs, "preRender", pass, 0, 0)
      f2 == IF passConfig[pass].enabled THEN DrawEnabledPass(f1, pass)
            ELSE f1
  IN Emit(f2, "postRender", pass, 0, 0)

RECURSIVE RenderLoop(_, _, _)
\* render, lines 165-167: _drawRenderPass for each pass in array order; the
\* passes drawn are kept in the field drawn.
RenderLoop(i, len, fs) ==
  IF i >= len THEN fs
  ELSE LET pass == renderPassArray[i + 1] IN
       RenderLoop(i + 1, len,
                  [DrawRenderPass(fs, pass) EXCEPT
                     !.drawn = Append(@, pass)])

\* render, lines 142-168
RenderResult(fs) ==
  LET f1 == Emit(fs, "spriteMaskManagerClear", Null, 0, 0)
      f2 == ShadowEvaluation(f1)
      f3 == ClearQueues(f2)
      f4 == Emit(f3, "applyViewProjectMatrix", Null, 0, 0)
      f5 == Emit(CallRender(f4, NumRenderers - 1), "callRender", Null, 0, 0)
      f6 == SortQueues(f5)
  IN RenderLoop(0, Len(renderPassArray), f6)

PipelineCallRecord(op, name, pass, drawn) ==
  [op |-> op, name |-> name, pass |-> pass, drawn |-> drawn]

\* The next RenderPass object to be constructed, Null when all are.
FreshPass ==
  IF \E p \in Passes : ~passCreated[p]
    THEN CHOOSE p \in Passes :
           ~passCreated[p] /\ \A q \in Passes : q < p => passCreated[q]
    ELSE Null

\* new RenderPass(name, priority), by the user of the pipeline
NewRenderPass(name, priority) ==
  /\ FreshPass # Null
  /\ passCreated' = [passCreated EXCEPT ![FreshPass] = TRUE]
  /\ passName' = [passName EXCEPT ![FreshPass] = name]
  /\ passPriority' = [passPriority EXCEPT ![FreshPass] = priority]
  /\ pipelineCall' = PipelineCallRecord("new RenderPass", name, FreshPass,
                                        <<>>)
  /\ frame' = <<>>
  /\ UNCHANGED <<renderPassArray, sceneVars, lightVars, engineVars,
                 frameInputs, queueVars>>

\* pipeline.addRenderPass(name, priority): a new pass is made and pushed
AddRenderPassByName(name, priority) ==
  /\ FreshPass # Null
  /\ Len(renderPassArray) < MaxPassArray
  /\ passCreated' = [passCreated EXCEPT ![FreshPass] = TRUE]
  /\ passName' = [passName EXCEPT ![FreshPass] = name]
  /\ passPriority' = [passPriority EXCEPT ![FreshPass] = priority]
  /\ renderPassArray' = SortByPriority(Append(renderPassArray, FreshPass))
  /\ pipelineCall' = PipelineCallRecord("addRenderPass", name, FreshPass,
                                        <<>>)
  /\ frame' = <<>>
  /\ UNCHANGED <<sceneVars, lightVars, engineVars, frameInputs, queueVars>>

\* pipeline.addRenderPass(pass): the RenderPass object is pushed
AddRenderPassObject(pass) ==
  /\ passCreated[pass]
  /\ Len(renderPassArray) < MaxPassArray
  /\ UNCHANGED <<passCreated, passName, passPriority>>
  /\ renderPassArray' = SortByPriority(Append(renderPassArray, pass))
  /\ pipelineCall' = PipelineCallRecord("addRenderPass", "", pass, <<>>)
  /\ frame' = <<>>
  /\ UNCHANGED <<sceneVars, lightVars, engineVars, frameInputs, queueVars>>

\* pipeline.removeRenderPass(name)
RemoveRenderPassByName(name) ==
  /\ renderPassArray' = RemovePass(renderPassArray, GetRenderPass(name))
  /\ pipelineCall' = PipelineCallRecord("removeRenderPass", name, Null, <<>>)
  /\ frame' = <<>>
  /\ UNCHANGED <<passCreated, passName, passPriority, sceneVars, lightVars,
                 engineVars, frameInputs, queueVars>>

\* pipeline.removeRenderPass(pass)
RemoveRenderPassObject(pass) ==
  /\ passCreated[pass]
  /\ renderPassArray' = RemovePass(renderPassArray, pass)
  /\ pipelineCall' = PipelineCallRecord("removeRenderPass", "", pass, <<>>)
  /\ frame' = <<>>
  /\ UNCHANGED <<passCreated, passName, passPriority, sceneVars, lightVars,
                 engineVars, frameInputs, queueVars>>

\* pipeline.render(context)
Render ==
  LET fs == RenderResult(FrameState) IN
  /\ opaqueQueue' = fs.opaqueQueue
  /\ alphaTestQueue' = fs.alphaTestQueue
  /\ transparentQueue' = fs.transparentQueue
  /\ allSpriteMasks' = fs.allSpriteMasks
  /\ renderers' = fs.renderers
  /\ frame' = fs.events
  /\ pipelineCall' = PipelineCallRecord("render", "", Null, fs.drawn)
  /\ UNCHANGED <<renderPassArray, passCreated, passName, passPriority,
                 frameInputs, sceneVars, lightVars, engineVars>>

\* pipeline.pushPrimitive(element), by a renderer outside a frame
PushPrimitive(r) ==
  LET fs == PushPrimitiveTo(FrameState, ElementOf(renderers[r], r)) IN
  /\ Len(opaqueQueue) + Len(alphaTestQueue) + Len(transparentQueue)
       < MaxPushed
  /\ opaqueQueue' = fs.opaqueQueue
  /\ alphaTestQueue' = fs.alphaTestQueue
  /\ transparentQueue' = fs.transparentQueue
  /\ pipelineCall' = PipelineCallRecord("pushPrimitive", "", Null, <<>>)
  /\ frame' = <<>>
  /\ UNCHANGED <<renderPassArray, passCreated, passName, passPriority,
                 frameInputs, renderers, allSpriteMasks, sceneVars,
                 lightVars, engineVars>>

\* pipeline._allSpriteMasks.add(mask), by a sprite mask
AddSpriteMask(mask) ==
  /\ Len(allSpriteMasks) < MaxPushed
  /\ allSpriteMasks' = DisorderedArrayAdd(allSpriteMasks, mask)
  /\ pipelineCall' = PipelineCallRecord("_allSpriteMasks.add", "", Null, <<>>)
  /\ frame' = <<>>
  /\ UNCHANGED <<renderPassArray, passCreated, passName, passPriority,
                 frameInputs, renderers, opaqueQueue, alphaTestQueue,
                 transparentQueue, sceneVars, lightVars, engineVars>>

\* The pipeline as its constructor leaves it: the default pass, of priority
\* 0, is the only pass.
PipelineInit ==
  /\ renderPassArray = <<DefaultPass>>
  /\ passCreated = [p \in Passes |-> p = DefaultPass]
  /\ passName = [p \in Passes |-> IF p = DefaultPass THEN "default" ELSE ""]
  /\ passPriority = [p \in Passes |-> 0]
  /\ pipelineCall = PipelineCallRecord("none", "", Null, <<>>)

PipelineNext ==
  \/ \E name \in PassNames, priority \in Priorities :
       NewRenderPass(name, priority)
  \/ \E name \in PassNames, priority \in Priorities :
       AddRenderPassByName(name, priority)
  \/ \E pass \in Passes : AddRenderPassObject(pass)
  \/ \E name \in PassNames : RemoveRenderPassByName(name)
  \/ \E pass \in Passes : RemoveRenderPassObject(pass)
  \/ Render

\* ------------------------------------------------ Scene: ambient light
EngineCallRecord(op, s, arg, result) ==
  [op |-> op, scene |-> s, arg |-> arg, result |-> result]

\* The ambient light of each scene and the scenes each light is bound to.
AmbientState == [ambientLight |-> ambientLight, ambientScenes |-> ambientScenes]

\* AmbientLight._addToScene: the scene joins the light's scenes.
AddToScene(st, light, s) ==
  [st EXCEPT !.ambientScenes[light] = Append(@, s)]

\* AmbientLight._removeFromScene: the scene leaves the light's scenes.
RemoveFromScene(st, light, s) ==
  [st EXCEPT !.ambientScenes[light] = SpliceOut(@, IndexOf(@, s))]

\* A setter that binds the new light and leaves the last one bound.
SetAmbientLightKeepsLast(st, s, value) ==
  IF value = Null THEN st
  ELSE IF st.ambientLight[s] # value
    THEN [AddToScene(st, value, s) EXCEPT !.ambientLight[s] = value]
    ELSE st

\* set ambientLight(value), lines 74-86
SetAmbientLightResult(st, s, value) ==
  IF value = Null THEN st
  ELSE
    LET lastAmbientLight == st.ambientLight[s]
        st1 == IF lastAmbientLight # Null
                 THEN RemoveFromScene(st, lastAmbientLight, s) ELSE st
    IN IF lastAmbientLight # value
         THEN [AddToScene(st1, value, s) EXCEPT !.ambientLight[s] = value]
         ELSE st

\* scene.ambientLight = value
SetAmbientLight(s, value) ==
  LET st == SetAmbientLightResult(AmbientState, s, value) IN
  /\ ambientLight' = st.ambientLight
  /\ ambientScenes' = st.ambientScenes
  /\ engineCall' = EngineCallRecord("set ambientLight", s, value, Null)
  /\ UNCHANGED <<entityName, allScenes, activeScene, refCount, activeCameras,
                 castShadows, sunLight, shaderMacros, sceneVars,
                 lightVars, pipelineVars, frameVars>>

AmbientNext ==
  \E s \in Scenes, value \in {Null} \cup AmbientLights :
    SetAmbientLight(s, value)

\* --------------------------------------------- Scene: findEntityByPath
\* A path is kept as path.split("/") gives it: the pieces between the
\* slashes, "" where two slashes meet or the path begins or ends with one.
Paths == UNION {[1..n -> Segments] : n \in 1..MaxSegments}

\* filter(Boolean): the pieces that are not empty
FilterBoolean(splits) == SelectSeq(splits, LAMBDA x : x # "")

\* Entity._findChildByName: the first child of that name in the order the
\* entity scans its children (from the last or from the first), or null.
FindChildByName(entity, name, fromLast) ==
  LET list == children[entity]
      named == {p \in 1..Len(list) : entityName[list[p]] = name}
  IN IF named = {} THEN Null
     ELSE list[CHOOSE p \in named :
                 \A q \in named : IF fromLast THEN q <= p ELSE p <= q]

RECURSIVE WalkChildren(_, _, _, _)
\* findEntityByPath, lines 235-238: the segments after the first
WalkChildren(findEntity, splits, j, fromLast) ==
  IF j >= Len(splits) THEN findEntity
  ELSE LET child == FindChildByName(findEntity, splits[j + 1], fromLast) IN
       IF child = Null THEN Null
       ELSE WalkChildren(child, splits, j + 1, fromLast)

RECURSIVE FindFromRoot(_, _, _, _)
\* findEntityByPath, lines 232-241: the roots in forward order; the first
\* root of the name of the first segment decides the result.
FindFromRoot(s, splits, i, fromLast) ==
  IF i >= Len(rootEntities[s]) THEN Null
  ELSE LET findEntity == rootEntities[s][i + 1] IN
       IF Len(splits) = 0 \/ entityName[findEntity] # splits[1]
         THEN FindFromRoot(s, splits, i + 1, fromLast)
         ELSE WalkChildren(findEntity, splits, 1, fromLast)

\* findEntityByPath, lines 230-242
FindEntityByPathResult(s, path, fromLast) ==
  FindFromRoot(s, FilterBoolean(path), 0, fromLast)

\* scene.findEntityByPath(path)
FindEntityByPath(s, path) ==
  /\ \E fromLast \in BOOLEAN :
       engineCall' = EngineCallRecord("findEntityByPath", s, path,
                       FindEntityByPathResult(s, path, fromLast))
  /\ UNCHANGED <<entityName, ambientLight, ambientScenes, allScenes,
                 activeScene, refCount, activeCameras, castShadows, sunLight,
                 shaderMacros, sceneVars, lightVars, pipelineVars,
                 frameVars>>

\* Entities of every name in every forest, all of them in the first scene:
\* the parentless ones are its roots, in the order they were made.
FindSceneInit ==
  /\ parent \in Forests
  /\ children = [p \in Entities |-> ChildrenOf(parent, p)]
  /\ rootEntities = [s \in Scenes |->
                       IF s = 1 THEN ChildrenOf(parent, Null) ELSE <<>>]
  /\ isActiveInEngine = [s \in Scenes |-> FALSE]
  /\ isRoot = [e \in Entities |-> parent[e] = Null]
  /\ scene = [e \in Entities |-> 1]
  /\ siblingIndex = [e \in Entities |->
                       IndexOf(ChildrenOf(parent, parent[e]), e)]
  /\ isActive = [e \in Entities |-> TRUE]
  /\ isActiveInHierarchy = [e \in Entities |-> FALSE]
  /\ sceneCall = NoSceneCall

FindNext ==
  \E s \in Scenes, path \in Paths : FindEntityByPath(s, path)

\* -------------------------------------------- Scene: _updateShaderData
\* The macros of a scene's shader data that the light registry and the
\* scene set: the light counts (0: the macro is disabled), the cascaded
\* shadow map flag and the shadow mode ("": never enabled).
NoMacros ==
  [O3_DIRECT_LIGHT_COUNT |-> 0, O3_POINT_LIGHT_COUNT |-> 0,
   O3_SPOT_LIGHT_COUNT |-> 0, CASCADED_SHADOW_MAP |-> FALSE,
   SHADOW_MODE |-> ""]

\* LightManager._updateShaderData, lines 126-145: the count macros
LightCountMacros(macros) ==
  [macros EXCEPT !.O3_DIRECT_LIGHT_COUNT = Len(directLights),
                 !.O3_POINT_LIGHT_COUNT = Len(pointLights),
                 !.O3_SPOT_LIGHT_COUNT = Len(spotLights)]

\* Scene._updateShaderData, lines 302-305: the sun light is replaced only
\* when the registry has a directional light.
NextSunLight(s) ==
  LET sunLightIndex == SunLightIndexOf(directLights) IN
  IF sunLightIndex # 0 - 1 THEN directLights[sunLightIndex + 1]
  ELSE sunLight[s]

\* Scene._updateShaderData, lines 307-312
ShadowMacros(macros, s, light) ==
  IF castShadows[s] /\ light # Null /\ shadowType[light] # "None"
    THEN [macros EXCEPT !.CASCADED_SHADOW_MAP = TRUE,
                        !.SHADOW_MODE = shadowType[light]]
    ELSE [macros EXCEPT !.CASCADED_SHADOW_MAP = FALSE]

\* scene._updateShaderData() (the union of the macros into
\* _globalShaderMacro, lines 314-319, is left out)
UpdateShaderData(s) ==
  /\ sunLight' = [sunLight EXCEPT ![s] = NextSunLight(s)]
  /\ shaderMacros' = [shaderMacros EXCEPT
       ![s] = ShadowMacros(LightCountMacros(@), s, NextSunLight(s))]
  /\ engineCall' = EngineCallRecord("_updateShaderData", s, Null, Null)
  /\ UNCHANGED <<entityName, ambientLight, ambientScenes, allScenes,
                 activeScene, refCount, activeCameras, castShadows,
                 sceneVars, lightVars, pipelineVars, frameVars>>

\* scene.castShadows = value
SetCastShadows(s, value) ==
  /\ castShadows' = [castShadows EXCEPT ![s] = value]
  /\ engineCall' = EngineCallRecord("set castShadows", s, value, Null)
  /\ UNCHANGED <<entityName, ambientLight, ambientScenes, allScenes,
                 activeScene, refCount, activeCameras, sunLight,
                 shaderMacros, sceneVars, lightVars, pipelineVars,
                 frameVars>>

\* Directional lights of every shadow type, all of one brightness.
ShadowLightInit ==
  /\ RegistryInit
  /\ shadowType \in [DirectLights -> ShadowTypes]
  /\ intensity = [l \in DirectLights |-> 1]
  /\ brightness = [l \in DirectLights |-> 1]

ShadowNext ==
  \/ \E light \in DirectLights : AttachDirectLight(light)
  \/ \E light \in DirectLights : DetachDirectLight(light)
  \/ UpdateShaderData(CameraScene)
  \/ \E value \in BOOLEAN : SetCastShadows(CameraScene, value)
  \/ Render

\* ------------------------------------------------------ Scene: cameras
\* An attach that pushes the camera without looking for it in the list.
AttachRenderCameraAlways(list, cam) == Append(list, cam)

\* _attachRenderCamera, lines 261-268
AttachRenderCameraResult(list, cam) ==
  IF IndexOf(list, cam) = 0 - 1 THEN Append(list, cam) ELSE list

\* _detachRenderCamera, lines 273-278
DetachRenderCameraResult(list, cam) ==
  IF IndexOf(list, cam) # 0 - 1 THEN SpliceOut(list, IndexOf(list, cam))
  ELSE list

\* scene._attachRenderCamera(camera)
AttachRenderCamera(s, cam) ==
  /\ activeCameras' = [activeCameras EXCEPT
                         ![s] = AttachRenderCameraResult(@, cam)]
  /\ engineCall' = EngineCallRecord("_attachRenderCamera", s, cam,
                                    IndexOf(activeCameras[s], cam))
  /\ UNCHANGED <<entityName, ambientLight, ambientScenes, allScenes,
                 activeScene, refCount, castShadows, sunLight,
                 shaderMacros, sceneVars, lightVars, pipelineVars,
                 frameVars>>

\* scene._detachRenderCamera(camera)
DetachRenderCamera(s, cam) ==
  /\ activeCameras' = [activeCameras EXCEPT
                         ![s] = DetachRenderCameraResult(@, cam)]
  /\ engineCall' = EngineCallRecord("_detachRenderCamera", s, cam,
                                    IndexOf(activeCameras[s], cam))
  /\ UNCHANGED <<entityName, ambientLight, ambientScenes, allScenes,
                 activeScene, refCount, castShadows, sunLight,
                 shaderMacros, sceneVars, lightVars, pipelineVars,
                 frameVars>>

\* The cameras of the engine, attached to and detached from the scenes.
CameraNext ==
  \/ \E s \in Scenes, cam \in Cameras : AttachRenderCamera(s, cam)
  \/ \E s \in Scenes, cam \in Cameras : DetachRenderCamera(s, cam)

\* ------------------------------------------------------ Scene: destroy
\* What destroy() reads and writes: the scene state, the active flags, the
\* engine's active scene and scene registry, the reference counts and the
\* camera lists.
DestroyState ==
  [rootEntities |-> rootEntities, isRoot |-> isRoot, scene |-> scene,
   parent |-> parent, children |-> children, siblingIndex |-> siblingIndex,
   isActiveInHierarchy |-> isActiveInHierarchy, error |-> "none",
   calls |-> <<>>,
   isActiveInEngine |-> isActiveInEngine, activeScene |-> activeScene,
   allScenes |-> allScenes, refCount |-> refCount,
   activeCameras |-> activeCameras]

\* EngineObject._destroyed of a scene: no statement of Scene.ts sets it.
Destroyed(s) == FALSE

\* scene._processActive(active) on a state record
ProcessActiveResult(st, s, active) ==
  [ProcessRoots(st, st.rootEntities[s], Len(st.rootEntities[s]), active)
     EXCEPT !.isActiveInEngine[s] = active]

\* sceneManager.activeScene = value: the scene that was active is
\* deactivated, the new one activated.
SetActiveSceneResult(st, value) ==
  LET oldScene == st.activeScene
      st1 == IF oldScene # Null THEN ProcessActiveResult(st, oldScene, FALSE)
             ELSE st
      st2 == IF value # Null THEN ProcessActiveResult(st1, value, TRUE)
             ELSE st1
  IN IF oldScene # value THEN [st2 EXCEPT !.activeScene = value] ELSE st

\* Entity.destroy: a root leaves the root list of its scene, any other
\* entity its parent; the entity and its descendants are gone (their
\* numbers stand for entities made afterwards).
EntityDestroy(st, e) ==
  LET gone == SubtreeOf(st.children, e)
      st1 == IF st.isRoot[e] /\ st.scene[e] # Null
               THEN RemoveFromEntityList(st, st.scene[e], e)
               ELSE RemoveFromParent(st, e)
  IN IF st1.error # "none" THEN st1
     ELSE [st1 EXCEPT
             !.isRoot = [x \in Entities |-> x \notin gone /\ @[x]],
             !.scene = [x \in Entities |-> IF x \in gone THEN Null ELSE @[x]],
             !.parent = [x \in Entities |->
                           IF x \in gone THEN Null ELSE @[x]],
             !.children = [x \in Entities |->
                             IF x \in gone THEN <<>> ELSE @[x]],
             !.siblingIndex = [x \in Entities |->
                                 IF x \in gone THEN 0 - 1 ELSE @[x]],
             !.isActiveInHierarchy = [x \in Entities |->
                                        x \notin gone /\ @[x]]]

RECURSIVE DestroyRoots(_, _, _)
\* _destroy, lines 340-342: rootEntities[0].destroy() while there is a
\* root; rounds counts the rounds left before the loop is given up as
\* endless.
DestroyRoots(st, s, rounds) ==
  IF st.error # "none" \/ Len(st.rootEntities[s]) = 0 THEN st
  ELSE IF rounds = 0 THEN [st EXCEPT !.error = "endless"]
  ELSE DestroyRoots(EntityDestroy(st, st.rootEntities[s][1]), s, rounds - 1)

\* A _destroy that forgets the cameras.
DestroyInternalKeepsCameras(st, s) ==
  LET st1 == IF st.isActiveInEngine[s] THEN SetActiveSceneResult(st, Null)
             ELSE st
      st2 == DestroyRoots(st1, s, NumEntities + 1)
  IN IF st2.error # "none" THEN st2
     ELSE [st2 EXCEPT !.refCount[s] = @ - 1]

\* _destroy, lines 338-345
DestroyInternal(st, s) ==
  LET st1 == IF st.isActiveInEngine[s] THEN SetActiveSceneResult(st, Null)
             ELSE st
      st2 == DestroyRoots(st1, s, NumEntities + 1)
  IN IF st2.error # "none" THEN st2
     ELSE [st2 EXCEPT !.activeCameras[s] = <<>>, !.refCount[s] = @ - 1]

\* destroy, lines 247-256
DestroyResult(st, s) ==
  IF Destroyed(s) THEN st
  ELSE LET st1 == DestroyInternal(st, s) IN
       IF st1.error # "none" THEN st1
       ELSE [st1 EXCEPT !.allScenes = SpliceOut(@, IndexOf(@, s))]

\* The assignment of a resulting state to the variables destroy() writes.
CommitDestroy(st) ==
  /\ Commit(st)
  /\ isActiveInEngine' = st.isActiveInEngine
  /\ activeScene' = st.activeScene
  /\ allScenes' = st.allScenes
  /\ refCount' = st.refCount
  /\ activeCameras' = st.activeCameras

\* scene.destroy()
Destroy(s) ==
  LET st == DestroyResult(DestroyState, s) IN
  /\ refCount[s] > 1 - MaxDestroys
  /\ CommitDestroy(st)
  /\ sceneCall' = SceneCallRecord("destroy", st.error)
  /\ engineCall' = EngineCallRecord("destroy", s,
       [roots |-> Len(rootEntities[s]), cameras |-> Len(activeCameras[s])],
       isActiveInEngine[s])
  /\ UNCHANGED <<isActive, entityName, ambientLight, ambientScenes,
                 castShadows, sunLight, shaderMacros, lightVars,
                 pipelineVars, frameVars>>

\* engine.sceneManager.activeScene = value
SetActiveScene(value) ==
  LET st == SetActiveSceneResult(DestroyState, value) IN
  /\ CommitDestroy(st)
  /\ sceneCall' = SceneCallRecord("set activeScene", st.error)
  /\ engineCall' = EngineCallRecord("set activeScene", value, Null, Null)
  /\ UNCHANGED <<isActive, entityName, ambientLight, ambientScenes,
                 castShadows, sunLight, shaderMacros, lightVars,
                 pipelineVars, frameVars>>

DestroyNext ==
  \/ \E s \in Scenes, e \in Entities : AddRootEntity(s, FALSE, 0, e)
  \/ \E value \in {Null} \cup Scenes : SetActiveScene(value)
  \/ \E s \in Scenes : AttachRenderCamera(s, MainCamera)
  \/ \E s \in Scenes : Destroy(s)

\* ----------------------------------------------------- the frame: Init
\* A camera as new Camera() makes it, a background of a solid colour, a
\* pass as new RenderPass(name, priority) makes it (the default pass with
\* mask 0 and no replacement material, every other pass with a mask and a
\* material of its own), and a renderer inside the frustum.
DefaultCamera ==
  [renderTarget |-> Null, clearFlags |-> 3, cullingMask |-> 3,
   enableFrustumCulling |-> TRUE, isOrthographic |-> FALSE]

DefaultBackground == [mode |-> "SolidColor", texture |-> Null]

DefaultPassConfig(p) ==
  [enabled |-> TRUE, renderTarget |-> Null, renderOverride |-> FALSE,
   clearFlags |-> Unset, mask |-> IF p = DefaultPass THEN 0 ELSE p,
   replaceMaterial |-> IF p = DefaultPass THEN Null ELSE p]

\* The renderers stand in a row before the camera and beside its axis: a
\* later renderer is farther along the forward axis and nearer in all.
DefaultRenderer(r) ==
  [layer |-> 1, intersectsFrustum |-> TRUE, renderQueueType |-> "Opaque",
   forwardDistance |-> r,
   distanceSquared |-> (NumRenderers + 1 - r) * (NumRenderers + 1 - r),
   isCulled |-> FALSE, distanceForSort |-> 0]

FrameInitWith(cams, backgrounds, configs, rends) ==
  /\ camera \in cams
  /\ background \in backgrounds
  /\ passConfig \in configs
  /\ renderers \in rends
  /\ opaqueQueue = <<>>
  /\ alphaTestQueue = <<>>
  /\ transparentQueue = <<>>
  /\ allSpriteMasks = <<>>
  /\ frame = <<>>

FrameIdle ==
  FrameInitWith({DefaultCamera}, {DefaultBackground},
                {[p \in Passes |-> DefaultPassConfig(p)]},
                {[r \in Renderers |-> DefaultRenderer(r)]})

\* The passes whose fields the user of the pipeline has set, and the values
\* set: enabled, renderTarget, renderOverride, clearFlags.
ConfiguredPasses == {DefaultPass + 1}

PassSettings ==
  [enabled : BOOLEAN, renderTarget : {Null, PassRenderTarget},
   renderOverride : BOOLEAN, clearFlags : {Unset, ClearFlagsNone}]

PassConfigs ==
  {[p \in Passes |->
      IF p \in ConfiguredPasses
        THEN [DefaultPassConfig(p) EXCEPT
                !.enabled = set[p].enabled,
                !.renderTarget = set[p].renderTarget,
                !.renderOverride = set[p].renderOverride,
                !.clearFlags = set[p].clearFlags]
        ELSE DefaultPassConfig(p)] :
     set \in [ConfiguredPasses -> PassSettings]}

\* Cameras with and without a render target, of every clear flag;
\* backgrounds of every mode (a texture only in mode Texture).
PassInit ==
  FrameInitWith(
    {[DefaultCamera EXCEPT !.renderTarget = rt, !.clearFlags = cf] :
       rt \in {Null, CameraRenderTarget}, cf \in CameraClearFlags},
    {[mode |-> m, texture |-> t] :
       m \in BackgroundModes, t \in {Null, 1}} \
      {[mode |-> m, texture |-> 1] : m \in {"SolidColor", "Sky"}},
    PassConfigs,
    {[r \in Renderers |-> DefaultRenderer(r)]})

\* The renderers whose entity's layer and whose bounds vary (the others are
\* on the default layer and inside the frustum), and the values set on a
\* renderer: layer, bounds, render queue type.
PlacedRenderers == {r \in Renderers : r < NumRenderers}

RendererSettings ==
  [layer : Layers, intersectsFrustum : BOOLEAN,
   renderQueueType : RenderQueueTypes]

RendererConfigs ==
  {[r \in Renderers |->
      [DefaultRenderer(r) EXCEPT
         !.layer = IF r \in PlacedRenderers THEN set[r].layer ELSE @,
         !.intersectsFrustum =
            IF r \in PlacedRenderers THEN set[r].intersectsFrustum ELSE @,
         !.renderQueueType = set[r].renderQueueType]] :
     set \in [Renderers -> RendererSettings]}

\* Renderers of every layer, queue type and distance, inside and outside
\* the frustum; cameras of every culling mask and projection, with and
\* without frustum culling.
CullInit ==
  FrameInitWith(
    {[DefaultCamera EXCEPT !.cullingMask = m, !.enableFrustumCulling = fc,
                           !.isOrthographic = o] :
       m \in CullingMasks, fc \in BOOLEAN, o \in BOOLEAN},
    {DefaultBackground},
    {[p \in Passes |-> DefaultPassConfig(p)]},
    RendererConfigs)

\* ---------------------------------------------------- the engine: Init
\* Every scene as its constructor leaves it: an ambient light of its own
\* bound to it, a shader data reference count of one, the scene at the end
\* of the engine's scene registry, no camera, no sun light, shadows cast.
NoEngineCall == EngineCallRecord("none", Null, Null, Null)

EngineInitWith(names, casts) ==
  /\ entityName \in names
  /\ ambientLight = [s \in Scenes |-> s]
  /\ ambientScenes = [l \in AmbientLights |->
                        IF l \in Scenes THEN <<l>> ELSE <<>>]
  /\ allScenes = [i \in 1..NumScenes |-> i]
  /\ activeScene = Null
  /\ refCount = [s \in Scenes |-> 1]
  /\ activeCameras = [s \in Scenes |-> <<>>]
  /\ castShadows \in casts
  /\ sunLight = [s \in Scenes |-> Null]
  /\ shaderMacros = [s \in Scenes |-> NoMacros]
  /\ engineCall = NoEngineCall

EngineIdle ==
  EngineInitWith({[e \in Entities |-> "A"]}, {[s \in Scenes |-> TRUE]})

\* ------------------------------------------------------ specifications
\* The scenes and their entities.
SceneSpecInit ==
  SceneInit /\ LightInit /\ PipelineInit /\ EngineIdle /\ FrameIdle

SceneSpec == SceneSpecInit /\ [][SceneNext]_vars

\* The light registry.
LightSpecInit ==
  SceneIdle /\ LightInit /\ PipelineInit /\ EngineIdle /\ FrameIdle

LightSpec == LightSpecInit /\ [][LightNext]_vars

\* The directional lights of every shadow type, intensity and brightness,
\* and the selection of the sun light among them.
SunSpecInit ==
  SceneIdle /\ SunInit /\ PipelineInit /\ EngineIdle /\ FrameIdle

SunSpec == SunSpecInit /\ [][SunNext]_vars

\* The render passes of a pipeline.
PipelineSpecInit ==
  SceneIdle /\ LightInit /\ PipelineInit /\ EngineIdle /\ FrameIdle

PipelineSpec == PipelineSpecInit /\ [][PipelineNext]_vars

\* The ambient lights of the scenes.
AmbientSpecInit ==
  SceneIdle /\ LightInit /\ PipelineInit /\ EngineIdle /\ FrameIdle

AmbientSpec == AmbientSpecInit /\ [][AmbientNext]_vars

\* The search by path in scenes of entities of every name.
FindSpecInit ==
  /\ FindSceneInit
  /\ LightInit
  /\ PipelineInit
  /\ EngineInitWith([Entities -> Names], {[s \in Scenes |-> TRUE]})
  /\ FrameIdle

FindSpec == FindSpecInit /\ [][FindNext]_vars

\* The destruction of scenes that hold roots and cameras.
DestroySpecInit ==
  SceneIdle /\ LightInit /\ PipelineInit /\ EngineIdle /\ FrameIdle

DestroySpec == DestroySpecInit /\ [][DestroyNext]_vars

\* The active cameras of the scenes.
CameraSpecInit ==
  SceneIdle /\ LightInit /\ PipelineInit /\ EngineIdle /\ FrameIdle

CameraSpec == CameraSpecInit /\ [][CameraNext]_vars

\* The sun light of the camera's scene and the shadow pass of its frames.
ShadowSpecInit ==
  SceneIdle /\ ShadowLightInit /\ PipelineInit /\ EngineIdle /\ FrameIdle

ShadowSpec == ShadowSpecInit /\ [][ShadowNext]_vars

\* The passes of a frame: render passes of every configuration, made by the
\* user and added to the pipeline, and the frames rendered with them.
PassPipelineInit ==
  /\ renderPassArray = <<DefaultPass>>
  /\ passCreated = [p \in Passes |-> TRUE]
  /\ passName = [p \in Passes |-> IF p = DefaultPass THEN "default" ELSE "a"]
  /\ passPriority = [p \in Passes |-> 0]
  /\ pipelineCall = PipelineCallRecord("none", "", Null, <<>>)

PassNext ==
  \/ \E pass \in Passes : AddRenderPassObject(pass)
  \/ Render

PassSpecInit ==
  SceneIdle /\ LightInit /\ PassPipelineInit /\ EngineIdle /\ PassInit

PassSpec == PassSpecInit /\ [][PassNext]_vars

\* The queues of a frame: renderers of every kind, culled and queued by
\* render(), and what is pushed between two frames.
CullNext ==
  \/ Render
  \/ \E r \in Renderers : PushPrimitive(r)
  \/ \E mask \in 1..MaxPushed : AddSpriteMask(mask)

CullSpecInit ==
  SceneIdle /\ LightInit /\ PipelineInit /\ EngineIdle /\ CullInit

CullSpec == CullSpecInit /\ [][CullNext]_vars

\* ======================================================= claims: the scene
\* The entities a list holds.
Range(list) == {list[p] : p \in 1..Len(list)}

\* The outcome of scene.addRootEntity(index, entity) called in this state.
AddAt(s, index, e) == AddRootEntityResult(SceneState, s, TRUE, index, e)

\* The outcome of scene.removeRootEntity(entity) called in this state.
Removed(s, e) == RemoveRootEntityResult(SceneState, s, e)

\* index is outside 0..rootCount of scene s.
OutOfRange(s, index) == index < 0 \/ index > Len(rootEntities[s])

\* The entity carries the root flag and is owned by scene s (the test of
\* removeRootEntity, and the case addRootEntity leaves alone).
IsRootOf(s, e) == isRoot[e] /\ scene[e] = s

\* C1: after any sequence of addRootEntity and removeRootEntity calls, the
\* entity at position i of every scene's root list has sibling index i.
C1_SiblingIndexIsPosition ==
  \A s \in Scenes : \A p \in 1..Len(rootEntities[s]) :
    siblingIndex[rootEntities[s][p]] = p - 1

\* C1 witness: after a removal, a list of two roots whose first was made
\* later than its second, so an indexed insertion or a reindexing happened.
C1_Witness ==
  /\ sceneCall.op = "removeRootEntity"
  /\ \E s \in Scenes :
       /\ Len(rootEntities[s]) = 2
       /\ rootEntities[s][1] > rootEntities[s][2]

\* C2: an addRootEntity call that raises the out-of-range error leaves the
\* root lists, the sibling indices and the entity's root flag, parent link
\* and owning scene as they were before the call.
C2_FailedAddChangesNothing ==
  [][\A s \in Scenes, e \in Entities, index \in IndexInputs :
       (AddRootEntity(s, TRUE, index, e)
          /\ sceneCall'.error = "OutOfBounds") =>
         /\ rootEntities' = rootEntities
         /\ siblingIndex' = siblingIndex
         /\ isRoot'[e] = isRoot[e]
         /\ parent'[e] = parent[e]
         /\ scene'[e] = scene[e]]_vars

C4_RootsOwnedByTheirScene ==
  /\ \A s \in Scenes : \A p \in 1..Len(rootEntities[s]) :
       LET e == rootEntities[s][p] IN
       /\ isRoot[e]
       /\ \A d \in SubtreeOf(children, e) : scene[d] = s
       /\ \A t \in Scenes : \A q \in 1..Len(rootEntities[t]) :
            rootEntities[t][q] = e => (t = s /\ q = p)
  /\ \A s \in Scenes, e \in Entities :
       LET r == Removed(s, e) IN
       (IsRootOf(s, e) /\ r.error = "none") =>
         /\ \A d \in SubtreeOf(children, e) : r.scene[d] = Null
         /\ \A t \in Scenes : e \notin Range(r.rootEntities[t])

\* C4 witness: after a removal, one scene holds a root with a child and an
\* entity with a child of its own is owned by no scene and is no root.
C4_Witness ==
  /\ sceneCall.op = "removeRootEntity"
  /\ \E s \in Scenes, e \in Entities :
       e \in Range(rootEntities[s]) /\ children[e] # <<>>
  /\ \E e \in Entities :
       ~isRoot[e] /\ scene[e] = Null /\ parent[e] = Null

\* C5: removeRootEntity(entity) changes nothing unless the entity is a root
\* owned by this scene; when it is, the entity leaves the root list, its root
\* flag is cleared and it is no longer active in the hierarchy.
C5_RemoveRootEntityEffect ==
  [][\A s \in Scenes, e \in Entities :
       RemoveRootEntity(s, e) =>
         IF IsRootOf(s, e)
           THEN /\ e \notin Range(rootEntities'[s])
                /\ ~isRoot'[e]
                /\ ~isActiveInHierarchy'[e]
           ELSE /\ rootEntities' = rootEntities
                /\ siblingIndex' = siblingIndex
                /\ isRoot'[e] = isRoot[e]
                /\ scene'[e] = scene[e]
                /\ isActiveInHierarchy'[e] = isActiveInHierarchy[e]]_vars

\* ============================================== claims: the light registry
\* Every light in the container has its position as stored index.
IndexIsPosition(lights, lightIndex) ==
  \A p \in 1..Len(lights) : lightIndex[lights[p]] = p - 1

\* C6: after every attach and detach call, every light in each of the three
\* containers has a stored index equal to its position in the container.
C6_LightIndexIsPosition ==
  /\ IndexIsPosition(spotLights, spotLightIndex)
  /\ IndexIsPosition(pointLights, pointLightIndex)
  /\ IndexIsPosition(directLights, directLightIndex)

\* C6 witness: a detach has moved the last directional light into a vacated
\* slot (the container is no longer in attach order), and the spot and point
\* containers hold lights too.
C6_Witness ==
  /\ lightCall.op = "_detachDirectLight"
  /\ Len(directLights) = 2
  /\ directLights[1] > directLights[2]
  /\ Len(spotLights) > 0
  /\ Len(pointLights) > 0

\* The positions of the directional lights that cast shadows.
ShadowPositions ==
  {p \in 1..Len(directLights) : shadowType[directLights[p]] # "None"}

\* The product the selection compares.
ProductAt(p) == intensity[directLights[p]] * brightness[directLights[p]]

\* C7: _getSunLightIndex returns the index of a shadow-casting directional
\* light whenever at least one directional light casts shadows.
C7_ShadowLightWins ==
  (lightCall.op = "_getSunLightIndex" /\ ShadowPositions # {}) =>
    (lightCall.result + 1) \in ShadowPositions

\* C7 witness: the selection has returned a shadow-casting light that comes
\* after a non-shadow light of a greater product.
C7_Witness ==
  /\ lightCall.op = "_getSunLightIndex"
  /\ lightCall.result >= 1
  /\ (lightCall.result + 1) \in ShadowPositions
  /\ \E p \in 1..lightCall.result :
       /\ p \notin ShadowPositions
       /\ ProductAt(p) > ProductAt(lightCall.result + 1)

\* The winning tier: the shadow-casting lights if any, else all lights.
WinningTier ==
  IF ShadowPositions # {} THEN ShadowPositions ELSE 1..Len(directLights)

\* The positions of the winning tier whose product is the tier's maximum.
BestPositions ==
  {p \in WinningTier : \A q \in WinningTier : ProductAt(q) <= ProductAt(p)}

\* C8: _getSunLightIndex returns -1 for no directional light, 0 for exactly
\* one, and otherwise the smallest index among the lights of the winning
\* tier whose product is the maximum of that tier.
C8_EarliestBrightestOfTier ==
  lightCall.op = "_getSunLightIndex" =>
    /\ Len(directLights) = 0 => lightCall.result = 0 - 1
    /\ Len(directLights) = 1 => lightCall.result = 0
    /\ Len(directLights) > 0 =>
         /\ (lightCall.result + 1) \in BestPositions
         /\ \A p \in BestPositions : lightCall.result + 1 <= p

\* C8 witness: the selection has returned the earlier of two lights of the
\* winning tier that tie on the maximum product, among three lights.
C8_Witness ==
  /\ lightCall.op = "_getSunLightIndex"
  /\ Len(directLights) = 3
  /\ Cardinality(BestPositions) >= 2
  /\ (lightCall.result + 1) \in BestPositions
  /\ \E p \in WinningTier : p \notin BestPositions

\* ================================================ claims: the render passes
\* C9: removeRenderPass called with a RenderPass object that is not in the
\* pass sequence, or with a name no pass of the sequence has, leaves the
\* pass sequence unchanged.
C9_RemoveAbsentIsNoOp ==
  [][(/\ pipelineCall'.op = "removeRenderPass"
      /\ \/ /\ pipelineCall'.pass # Null
            /\ pipelineCall'.pass \notin Range(renderPassArray)
         \/ /\ pipelineCall'.pass = Null
            /\ \A p \in Range(renderPassArray) :
                 passName[p] # pipelineCall'.name)
     => renderPassArray' = renderPassArray]_vars

\* The priorities of a sequence of passes.
PrioritiesOf(passes) == [p \in 1..Len(passes) |-> passPriority[passes[p]]]

\* C10: the pass sequence is in non-decreasing priority order after every
\* addRenderPass and removeRenderPass call, and render() runs the passes in
\* exactly the order of the sequence: the passes of negative priority before
\* the default pass, those of positive priority after it.
C10_PassesRunInPriorityOrder ==
  /\ \A p, q \in 1..Len(renderPassArray) :
       p < q => passPriority[renderPassArray[p]]
                  <= passPriority[renderPassArray[q]]
  /\ pipelineCall.op = "render" =>
       /\ pipelineCall.drawn = renderPassArray
       /\ \A p, q \in 1..Len(pipelineCall.drawn) :
            pipelineCall.drawn[q] = DefaultPass =>
              /\ passPriority[pipelineCall.drawn[p]] < 0 => p < q
              /\ passPriority[pipelineCall.drawn[p]] > 0 => p > q

\* C10 witness: passes were added with priorities 10, then -5, beside the
\* default pass of priority 0, and render() has run them as -5, 0, 10.
C10_Witness ==
  /\ pipelineCall.op = "render"
  /\ PrioritiesOf(pipelineCall.drawn) = <<0 - 5, 0, 10>>
  /\ pipelineCall.drawn[2] = DefaultPass
  /\ pipelineCall.drawn[3] < pipelineCall.drawn[1]

\* ======================================================= claims: the frame
\* The steps of the last frame that belong to a pass, and the steps of a
\* given kind.
PassSteps == {i \in 1..Len(frame) : frame[i].pass # Null}

StepsOf(kind) == {i \in 1..Len(frame) : frame[i].kind = kind}

\* The render target a pass binds if its own target goes first.
OwnTargetFirst(pass) ==
  IF passConfig[pass].renderTarget # Null THEN passConfig[pass].renderTarget
  ELSE camera.renderTarget

\* C11: when an enabled pass executes, the render target bound is the pass's
\* own render target if it has one and the camera's only if the pass has
\* none, also when both the pass and the camera have a render target.
C11_PassTargetBoundFirst ==
  \A i \in StepsOf("activeRenderTarget") :
    frame[i].x = OwnTargetFirst(frame[i].pass)

\* The hook that opens the pass of step i, and the hook that closes it.
OpeningOf(i) ==
  CHOOSE j \in StepsOf("preRender") :
    j <= i /\ \A k \in StepsOf("preRender") : k <= i => k <= j

ClosingOf(i) ==
  CHOOSE j \in StepsOf("postRender") :
    j >= i /\ \A k \in StepsOf("postRender") : k >= i => k >= j

\* The steps of one pass: from an opening preRender to the next postRender.
WellBracketed(i) ==
  /\ \E j \in StepsOf("preRender") : j <= i
  /\ \E j \in StepsOf("postRender") : j >= i
  /\ \A k \in OpeningOf(i)..ClosingOf(i) : frame[k].pass = frame[i].pass
  /\ \A k \in (OpeningOf(i) + 1)..(ClosingOf(i) - 1) :
       frame[k].kind \notin {"preRender", "postRender"}

\* C12: for every pass in every frame preRender is invoked first and
\* postRender last, whether or not the pass is enabled, and a pass that is
\* not enabled causes nothing between the two: no render target binding, no
\* clear, no queue draw, no custom render hook and no target resolve.
C12_HooksBracketEveryPass ==
  /\ pipelineCall.op = "render" =>
       /\ Cardinality(StepsOf("preRender")) = Len(renderPassArray)
       /\ Cardinality(StepsOf("postRender")) = Len(renderPassArray)
       /\ \A k \in 1..Len(renderPassArray) :
            Cardinality({j \in StepsOf("preRender") :
                           frame[j].pass = renderPassArray[k]})
              = Occurrences(renderPassArray, 1..Len(renderPassArray),
                            renderPassArray[k])
  /\ \A i \in PassSteps : WellBracketed(i)
  /\ \A i \in StepsOf("preRender") :
       ~passConfig[frame[i].pass].enabled =>
         i < Len(frame) /\ frame[i + 1].kind = "postRender"

\* A frame of a disabled pass that has a render target, clear flags and a
\* render hook of its own, and of an enabled pass that draws.
C12_Witness ==
  /\ pipelineCall.op = "render"
  /\ \E i \in StepsOf("preRender") :
       /\ ~passConfig[frame[i].pass].enabled
       /\ passConfig[frame[i].pass].renderTarget # Null
       /\ passConfig[frame[i].pass].renderOverride
       /\ camera.clearFlags # ClearFlagsNone
  /\ \E i \in StepsOf("drawOpaque") : passConfig[frame[i].pass].enabled

\* ============================================== claims: the ambient light
\* The ambient lights bound to a scene.
BoundTo(st, s) ==
  {l \in AmbientLights :
     \E p \in 1..Len(st.ambientScenes[l]) : st.ambientScenes[l][p] = s}

\* C13: after any sequence of ambientLight assignments following the
\* construction of the scenes, the ambient light of a scene is never null
\* and is the one light bound to the scene (once); assigning null changes
\* nothing, and assigning another light unbinds the previous one and binds
\* the new one.
C13_OneAmbientLightBound ==
  \A s \in Scenes :
    /\ ambientLight[s] # Null
    /\ BoundTo(AmbientState, s) = {ambientLight[s]}
    /\ Occurrences(ambientScenes[ambientLight[s]],
                   1..Len(ambientScenes[ambientLight[s]]), s) = 1
    /\ SetAmbientLightResult(AmbientState, s, Null) = AmbientState
    /\ \A value \in AmbientLights :
         LET st == SetAmbientLightResult(AmbientState, s, value) IN
         /\ st.ambientLight[s] = value
         /\ BoundTo(st, s) = {value}
         /\ \A t \in Scenes \ {s} :
              /\ st.ambientLight[t] = ambientLight[t]
              /\ BoundTo(st, t) = BoundTo(AmbientState, t)

\* A scene that was given another light, then null: it shares the light of
\* the other scene, and the light it was constructed with is bound to none.
C13_Witness ==
  /\ engineCall.op = "set ambientLight"
  /\ engineCall.arg = Null
  /\ \E s \in Scenes :
       /\ engineCall.scene = s
       /\ ambientLight[s] # s
       /\ ambientScenes[s] = <<>>
       /\ \E t \in Scenes \ {s} : ambientLight[t] = ambientLight[s]

\* ============================================= claims: findEntityByPath
RECURSIVE ChainEnds(_, _, _)
\* The entities that end a chain matching the first k of the segments: a
\* root of the scene of the first name, a child of it of the second, ...
ChainEnds(s, splits, k) ==
  IF k = 1
    THEN {e \in Range(rootEntities[s]) : entityName[e] = splits[1]}
    ELSE {e \in Entities :
            /\ entityName[e] = splits[k]
            /\ parent[e] \in ChainEnds(s, splits, k - 1)}

\* C14: findEntityByPath returns an entity that ends a chain of a root and
\* children whose names are the non-empty segments of the path in order
\* (for "A/B/C" an entity named C), whenever the scene holds such a chain,
\* whatever other roots and children of equal names it holds, and returns
\* none when no chain matches.
C14_PathFindsChain ==
  \A s \in Scenes, path \in Paths, fromLast \in BOOLEAN :
    LET splits == FilterBoolean(path)
        found == FindEntityByPathResult(s, path, fromLast)
    IN Len(splits) > 0 =>
         IF ChainEnds(s, splits, Len(splits)) # {}
           THEN found \in ChainEnds(s, splits, Len(splits))
           ELSE found = Null

\* ======================================================== claims: destroy
\* C15: the destruction of a scene terminates and ends with an empty root
\* list (every root destroyed), an empty camera list, the reference count
\* of the scene's shader data lower by exactly one, the scene out of the
\* engine's scene registry and, if the scene was active in the engine, the
\* engine without an active scene.
C15_DestroyReleasesTheScene ==
  \A s \in Scenes :
    LET st == DestroyResult(DestroyState, s) IN
    /\ st.error = "none"
    /\ st.rootEntities[s] = <<>>
    /\ \A e \in Range(rootEntities[s]) : ~st.isRoot[e] /\ st.scene[e] = Null
    /\ st.activeCameras[s] = <<>>
    /\ st.refCount[s] = refCount[s] - 1
    /\ s \notin Range(st.allScenes)
    /\ isActiveInEngine[s] => st.activeScene = Null

\* The active scene, with two roots and a camera, has been destroyed.
C15_Witness ==
  /\ engineCall.op = "destroy"
  /\ engineCall.arg.roots >= 2
  /\ engineCall.arg.cameras >= 1
  /\ engineCall.result
  /\ rootEntities[engineCall.scene] = <<>>
  /\ activeCameras[engineCall.scene] = <<>>
  /\ refCount[engineCall.scene] = 0
  /\ activeScene = Null

\* ================================================ claims: the shadow pass
\* The scene of the camera has a sun light that casts shadows.
SunLightCastsShadows ==
  /\ sunLight[CameraScene] # Null
  /\ shadowType[sunLight[CameraScene]] # "None"

\* C16: in a frame the cascaded shadow caster pass runs if and only if
\* castShadows is set and the scene has a sun light whose shadow type is not
\* None (it does not run when the scene has no sun light); when it runs, it
\* runs before the queues are reset and before any render pass executes.
C16_ShadowPassIffSunLightCasts ==
  pipelineCall.op = "render" =>
    /\ StepsOf("shadowCasterRender") # {}
         <=> (castShadows[CameraScene] /\ SunLightCastsShadows)
    /\ \A i \in StepsOf("shadowCasterRender") :
         \A j \in StepsOf("clearQueues") \cup PassSteps : i < j

\* ================================================ claims: _processActive
\* The invocations scene._processActive(active) makes in this state, and
\* how many of them are the given call on the given entity.
ProcessActiveCalls(s, active) ==
  ProcessRoots(SceneState, rootEntities[s], Len(rootEntities[s]),
               active).calls

TimesCalled(log, call, e) ==
  Cardinality({p \in 1..Len(log) : log[p] = <<call, e>>})

\* C17 as claimed: _processActive(false) invokes deactivation exactly once
\* on each root that was active in the hierarchy and on no other root,
\* _processActive(true) invokes activation exactly once on each root whose
\* own active flag is set and on no other, whatever calls came before.
C17_DeactivatesTheActiveInHierarchy ==
  \A s \in Scenes, e \in Entities :
    /\ TimesCalled(ProcessActiveCalls(s, FALSE), "_processInActive", e)
         = IF e \in Range(rootEntities[s]) /\ isActiveInHierarchy[e]
             THEN 1 ELSE 0
    /\ TimesCalled(ProcessActiveCalls(s, TRUE), "_processActive", e)
         = IF e \in Range(rootEntities[s]) /\ isActive[e] THEN 1 ELSE 0

\* C17, amended: each call of _processActive invokes the deactivation
\* (false) or the activation (true), and never the other of the two, exactly
\* once on each root whose own active flag is set, active in the hierarchy
\* or not, and on no other entity.
C17_InvokesOncePerActiveRoot ==
  \A s \in Scenes, e \in Entities :
    LET mine == IF e \in Range(rootEntities[s]) /\ isActive[e]
                  THEN 1 ELSE 0
        off == ProcessActiveCalls(s, FALSE)
        on == ProcessActiveCalls(s, TRUE)
    IN /\ TimesCalled(off, "_processInActive", e) = mine
       /\ TimesCalled(off, "_processActive", e) = 0
       /\ TimesCalled(on, "_processActive", e) = mine
       /\ TimesCalled(on, "_processInActive", e) = 0

\* A scene that _processActive(false) has just left inactive, with a root
\* whose own flag is set and a root whose flag is not: the next
\* _processActive(false) is the second in a row.
C17_Witness ==
  /\ sceneCall.op = "_processActive"
  /\ \E s \in Scenes :
       /\ ~isActiveInEngine[s]
       /\ \E e1, e2 \in Range(rootEntities[s]) :
            /\ isActive[e1] /\ ~isActiveInHierarchy[e1]
            /\ ~isActive[e2]
       /\ ProcessActiveCalls(s, FALSE) # <<>>

\* ============================================ claims: the steps of a frame
\* Whether every step of the first kind comes before every step of the
\* second, and whether the frame has exactly one step of a kind.
Before(first, second) ==
  \A i \in StepsOf(first), j \in StepsOf(second) : i < j

Once(kind) == Cardinality(StepsOf(kind)) = 1

\* A queue in the order of its comparer: ascending distance for sort from
\* near to far, descending from far to near.
InOrder(queue, nearToFar) ==
  \A p, q \in 1..Len(queue) :
    p < q => IF nearToFar
               THEN queue[p].distanceForSort <= queue[q].distanceForSort
               ELSE queue[p].distanceForSort >= queue[q].distanceForSort

\* The elements the three queues hold at a step for a renderer.
QueuedAt(step, r) ==
  LET of(queue) == Cardinality({p \in 1..Len(queue) : queue[p].renderer = r})
  IN of(step.opaque) + of(step.alphaTest) + of(step.transparent)

\* C18: render() evaluates the shadow pass, then resets the three queues and
\* the sprite mask list, then uploads the view-projection matrix, then culls,
\* then sorts, then runs the passes; when a hook or a draw of a pass runs,
\* the queues hold one element for each renderer of this frame that the
\* camera did not leave out and none left from before, the opaque and the
\* alpha test queue from near to far and the transparent one from far to
\* near.
C18_FrameStepsInOrder ==
  pipelineCall.op = "render" =>
    /\ Once("clearQueues") /\ Once("applyViewProjectMatrix")
    /\ Once("callRender") /\ Once("sort")
    /\ Before("shadowCasterRender", "clearQueues")
    /\ Before("clearQueues", "applyViewProjectMatrix")
    /\ Before("applyViewProjectMatrix", "callRender")
    /\ Before("callRender", "sort")
    /\ \A i \in StepsOf("sort"), j \in PassSteps : i < j
    /\ PassSteps # {}
    /\ \A i \in StepsOf("clearQueues") :
         /\ frame[i].opaque = <<>> /\ frame[i].alphaTest = <<>>
         /\ frame[i].transparent = <<>> /\ frame[i].masks = <<>>
    /\ \A i \in PassSteps :
         /\ InOrder(frame[i].opaque, TRUE)
         /\ InOrder(frame[i].alphaTest, TRUE)
         /\ InOrder(frame[i].transparent, FALSE)
         /\ frame[i].masks = <<>>
         /\ \A r \in Renderers :
              QueuedAt(frame[i], r)
                = IF SkippedByCamera(renderers[r]) THEN 0 ELSE 1

\* A frame that began with a sprite mask and elements of the frame before
\* in the transparent queue, and whose culling queued two transparent
\* elements in an order the sort had to change.
C18_Witness ==
  /\ pipelineCall.op = "render"
  /\ frame[1].transparent # <<>>
  /\ frame[1].masks # <<>>
  /\ \E c \in StepsOf("callRender"), t \in StepsOf("sort") :
       /\ Len(frame[c].transparent) = NumRenderers
       /\ frame[c].transparent # frame[t].transparent

\* ============================================ claims: the draws of a pass
\* The steps of a kind between the preRender at step i and its postRender.
Inside(i, kinds) ==
  {k \in (i + 1)..(ClosingOf(i) - 1) : frame[k].kind \in kinds}

QueueDraws == {"drawOpaque", "drawAlphaTest", "drawTransparent"}
BackgroundDraws == {"drawSky", "drawBackgroundTexture"}
AllDraws == QueueDraws \cup BackgroundDraws \cup {"render"}

\* The camera clears color, and the background has something to draw: a
\* sky, or a texture in mode Texture.
ClearsColor == BitAnd(camera.clearFlags, ClearFlagsColor) # 0

BackgroundToDraw ==
  IF background.mode = "Sky" THEN {"drawSky"}
  ELSE IF background.mode = "Texture" /\ background.texture # Null
    THEN {"drawBackgroundTexture"}
  ELSE {}

\* The draws of the enabled pass opened at step i, given whether it is to
\* draw the background.
DrawsOfPass(i, withBackground) ==
  LET cfg == passConfig[frame[i].pass] IN
  /\ IF cfg.renderOverride
       THEN /\ Cardinality(Inside(i, {"render"})) = 1
            /\ Inside(i, QueueDraws \cup BackgroundDraws) = {}
       ELSE /\ Inside(i, {"render"}) = {}
            /\ \A kind \in QueueDraws :
                 /\ Cardinality(Inside(i, {kind})) = 1
                 /\ \A k \in Inside(i, {kind}) :
                      frame[k].x = cfg.mask /\ frame[k].y = cfg.replaceMaterial
            /\ \A o \in Inside(i, {"drawOpaque"}),
                  a \in Inside(i, {"drawAlphaTest"}),
                  t \in Inside(i, {"drawTransparent"}) :
                 /\ o < a /\ a < t
                 /\ \A b \in Inside(i, BackgroundDraws) : a < b /\ b < t
            /\ Cardinality(Inside(i, BackgroundDraws))
                 = IF withBackground THEN 1 ELSE 0
  /\ \A d \in Inside(i, AllDraws),
        r \in Inside(i, {"blitRenderTarget", "generateMipmaps"}) : d < r

\* C19 as claimed: an enabled pass with renderOverride runs its render hook
\* and no draw of the pipeline; any other enabled pass draws the opaque
\* queue, the alpha test queue, the background if and only if the camera's
\* clear flags include color, and the transparent queue, in this order, the
\* queues with the pass's mask and replacement material; the resolve and
\* the mipmaps come after all draws.
C19_BackgroundIffColorCleared ==
  \A i \in StepsOf("preRender") :
    passConfig[frame[i].pass].enabled =>
      DrawsOfPass(i, ClearsColor)

\* C19, amended: as claimed, but the background is drawn if and only if the
\* camera's clear flags include color and the background is a sky, or is a
\* texture background with a texture set; the sky for the one, the
\* fullscreen texture for the other.
C19_BackgroundIffColorAndDrawable ==
  \A i \in StepsOf("preRender") :
    passConfig[frame[i].pass].enabled =>
      /\ DrawsOfPass(i, ClearsColor /\ BackgroundToDraw # {})
      /\ \A b \in Inside(i, BackgroundDraws) :
           frame[b].kind \in BackgroundToDraw

\* A frame with a render target, a sky drawn by a pass that draws the
\* queues, and a pass with a render hook of its own.
C19_Witness ==
  /\ pipelineCall.op = "render"
  /\ StepsOf("drawSky") # {}
  /\ StepsOf("generateMipmaps") # {}
  /\ \E i \in StepsOf("render") : passConfig[frame[i].pass].enabled

\* ================================================= claims: the culling
\* The elements a queue holds for a renderer.
ElementsOf(queue, r) ==
  Cardinality({p \in 1..Len(queue) : queue[p].renderer = r})

\* The queue of a step that takes the elements of a render queue type.
QueueOfType(step, type) ==
  CASE type = "Opaque" -> step.opaque
    [] type = "AlphaTest" -> step.alphaTest
    [] type = "Transparent" -> step.transparent

\* The renderer's layer is in the camera's culling mask, and the frustum
\* culling is off or the renderer's bounds meet the frustum.
SeenByCamera(r) ==
  /\ BitAnd(camera.cullingMask, renderers[r].layer) # 0
  /\ ~camera.enableFrustumCulling \/ renderers[r].intersectsFrustum

\* C20: after the culling of a frame a renderer has contributed an element
\* if and only if its layer is in the camera's culling mask and frustum
\* culling is disabled or its bounds intersect the frustum; the element is
\* in the queue of its render queue type, once, and in no other queue; right
\* after the queues are cleared all three hold no element.
C20_QueuedIffSeenByCamera ==
  pipelineCall.op = "render" =>
    /\ \A c \in StepsOf("callRender") :
         \A r \in Renderers, type \in RenderQueueTypes :
           ElementsOf(QueueOfType(frame[c], type), r)
             = IF SeenByCamera(r) /\ renderers[r].renderQueueType = type
                 THEN 1 ELSE 0
    /\ \A i \in StepsOf("clearQueues") :
         Len(frame[i].opaque) + Len(frame[i].alphaTest)
           + Len(frame[i].transparent) = 0

\* A frame that began with an element left in a queue, whose camera culls
\* by frustum and by layer, and that queued one element in each queue.
C20_Witness ==
  /\ pipelineCall.op = "render"
  /\ Len(frame[1].opaque) + Len(frame[1].alphaTest)
       + Len(frame[1].transparent) > 0
  /\ camera.enableFrustumCulling
  /\ \E c \in StepsOf("callRender") :
       /\ Len(frame[c].opaque) = 1
       /\ Len(frame[c].alphaTest) = 1
       /\ Len(frame[c].transparent) = 1

\* ================================================ claims: the cameras
\* C21: after any sequence of _attachRenderCamera and _detachRenderCamera
\* calls a camera is at most once in the active camera list of a scene;
\* attaching a camera that is attached leaves the list as it is, and so
\* does detaching a camera that is not attached.
C21_CameraAttachedAtMostOnce ==
  \A s \in Scenes, cam \in Cameras :
    LET list == activeCameras[s]
        attached == \E p \in 1..Len(list) : list[p] = cam
    IN /\ Occurrences(list, 1..Len(list), cam) <= 1
       /\ attached => AttachRenderCameraResult(list, cam) = list
       /\ ~attached => DetachRenderCameraResult(list, cam) = list

\* A scene with every camera attached, right after an attach of a camera
\* that was in its list already.
C21_Witness ==
  /\ engineCall.op = "_attachRenderCamera"
  /\ engineCall.result # 0 - 1
  /\ Len(activeCameras[engineCall.scene]) = NumCameras

\* ============================================ claims: the cached sun light
\* C22: after every Scene._updateShaderData call the sun light of the scene
\* is the directional light at the index _getSunLightIndex returns, and is
\* absent when the registry holds no directional light; a light detached
\* from the registry is never left as the sun light, and CASCADED_SHADOW_MAP
\* is never enabled on account of a detached light.
C22_SunLightIsAttached ==
  \A s \in Scenes :
    LET sunLightIndex == SunLightIndexOf(directLights)
        light == NextSunLight(s)
        macros == ShadowMacros(LightCountMacros(shaderMacros[s]), s, light)
    IN /\ light = IF sunLightIndex = 0 - 1 THEN Null
                  ELSE directLights[sunLightIndex + 1]
       /\ directLights = <<>> => light = Null
       /\ light # Null => directLightIndex[light] # 0 - 1
       /\ macros.CASCADED_SHADOW_MAP =>
            light # Null /\ directLightIndex[light] # 0 - 1

\* ========================================= claims: active in the hierarchy
\* A root of a scene is active in the hierarchy if and only if its scene is
\* active in the engine and its own active flag is set.
RootsFollowTheirScene ==
  \A s \in Scenes : \A e \in Range(rootEntities[s]) :
    isActiveInHierarchy[e] <=> (isActiveInEngine[s] /\ isActive[e])

\* removeRootEntity leaves the root it takes out of a scene not active in
\* the hierarchy.
RemovedRootIsInactive ==
  \A s \in Scenes, e \in Entities :
    LET st == RemoveRootEntityResult(SceneState, s, e) IN
    (e \in Range(rootEntities[s]) /\ e \notin Range(st.rootEntities[s]))
      => ~st.isActiveInHierarchy[e]

\* addRootEntity leaves the entity it moves to a scene that is not active
\* not active in the hierarchy.
MovedToInactiveSceneIsInactive ==
  \A s \in Scenes, e \in Entities, hasIndex \in BOOLEAN,
     index \in IndexInputs :
    LET st == AddRootEntityResult(SceneState, s, hasIndex, index, e) IN
    (~isActiveInEngine[s] /\ e \in Range(st.rootEntities[s]))
      => ~st.isActiveInHierarchy[e]

\* C23: after any sequence of addRootEntity, removeRootEntity and
\* _processActive calls a root entity of a scene is active in the hierarchy
\* if and only if the scene is active in the engine and the entity's own
\* active flag is set; an entity removeRootEntity has taken out of a scene,
\* and an entity moved to a scene that is not active, is not active in the
\* hierarchy.
C23_RootActiveIffSceneActive ==
  /\ RootsFollowTheirScene
  /\ RemovedRootIsInactive
  /\ MovedToInactiveSceneIsInactive

\* After an addRootEntity: an active scene with a root that is active in
\* the hierarchy and a root whose own flag is not set, and a scene that is
\* not active with a root whose own flag is set.
C23_Witness ==
  /\ sceneCall = SceneCallRecord("addRootEntity", "none")
  /\ \E s1, s2 \in Scenes :
       /\ isActiveInEngine[s1] /\ ~isActiveInEngine[s2]
       /\ \E e1, e2 \in Range(rootEntities[s1]) :
            isActiveInHierarchy[e1] /\ ~isActive[e2]
       /\ \E e3 \in Range(rootEntities[s2]) : isActive[e3]

\* ============================================== claims: a second destroy
\* C24: destroy() on a scene that has been destroyed (its shader data
\* reference released by an earlier destroy()) changes nothing: it takes no
\* other scene out of the engine's scene registry and does not lower the
\* reference count of the scene's shader data again.
C24_SecondDestroyChangesNothing ==
  \A s \in Scenes :
    refCount[s] < 1 =>
      LET st == DestroyResult(DestroyState, s) IN
      /\ st.allScenes = allScenes
      /\ st.refCount = refCount
      /\ st = DestroyState

\* ===================================== claims: the shadow pass and the macro
\* C25: the shadow caster pass runs in a frame exactly when the macro
\* CASCADED_SHADOW_MAP is enabled as the latest Scene._updateShaderData set
\* it, for every castShadows, with and without a sun light, and for every
\* shadow type of the sun light (the frame is one rendered with the scene as
\* that call left it).
C25_ShadowPassAgreesWithMacro ==
  engineCall = EngineCallRecord("_updateShaderData", CameraScene, Null, Null)
    => (ShadowEvaluation(FrameState).events # <<>>
          <=> shaderMacros[CameraScene].CASCADED_SHADOW_MAP)
====
